---------------------------- MODULE Spec2Model ----------------------------
(***************************************************************************)
(* VoxSynopsis transcription core: loop detector and quality validator     *)
(* (core/loop_detector.py), recovery ladder (core/recovery_manager.py),    *)
(* sequential orchestrator (core/transcription.py) and batch thread        *)
(* (core/batch_transcription.py).                                          *)
(*                                                                         *)
(* Conventions.  A text is a sequence of Unicode code points (Python str). *)
(* A duration is a whole number of tenths of a second; 0 stands for an     *)
(* audio_duration that is None or 0.0 (both are falsy in the code).  A     *)
(* float score is the exact rational [n |-> numerator, d |-> denominator]  *)
(* in lowest terms.                                                        *)
(***************************************************************************)
EXTENDS Integers, Sequences, FiniteSets, TLC

(***************************************************************************)
(* Rationals                                                               *)
(***************************************************************************)
RECURSIVE Gcd(_, _)
Gcd(a, b) == IF b = 0 THEN a ELSE Gcd(b, a % b)

Rat(n, d) ==
    LET g == Gcd(n, d)
    IN  IF n = 0 THEN [n |-> 0, d |-> 1] ELSE [n |-> n \div g, d |-> d \div g]

RAdd(a, b) == Rat(a.n * b.d + b.n * a.d, a.d * b.d)
RSub(a, b) == IF a.n * b.d <= b.n * a.d THEN Rat(0, 1)
              ELSE Rat(a.n * b.d - b.n * a.d, a.d * b.d)
RMul(a, b) == Rat(a.n * b.n, a.d * b.d)
RLt(a, b)  == a.n * b.d < b.n * a.d
RLe(a, b)  == a.n * b.d <= b.n * a.d
RMin(a, b) == IF RLe(a, b) THEN a ELSE b
RMax(a, b) == IF RLe(a, b) THEN b ELSE a
RZero == Rat(0, 1)
ROne  == Rat(1, 1)

(***************************************************************************)
(* Characters and the str methods the code uses                            *)
(***************************************************************************)
\* str.isspace for the characters that occur: tab, newline, VT, FF, CR, space
IsSpace(c) == c = 32 \/ (9 <= c /\ c <= 13)
IsDigit(c) == 48 <= c /\ c <= 57
\* the class [A-Z] of _score_basic_structure
IsAsciiUpper(c) == 65 <= c /\ c <= 90
\* Latin-1 letters: 192..255 without the signs 215 and 247
IsLatin1Letter(c) == 192 <= c /\ c <= 255 /\ c # 215 /\ c # 247
\* the class \w of a str pattern, on ASCII and Latin-1
IsWordChar(c) ==
    \/ IsDigit(c) \/ IsAsciiUpper(c) \/ (97 <= c /\ c <= 122) \/ c = 95
    \/ IsLatin1Letter(c)
\* str.lower, on ASCII and Latin-1 (223 and 255 have no upper-case partner)
Lower(c) ==
    IF IsAsciiUpper(c) \/ (192 <= c /\ c <= 222 /\ c # 215) THEN c + 32 ELSE c
\* the class [.!?,:;] removed by _clean_text
IsCleanPunct(c) == c \in {46, 33, 63, 44, 58, 59}
\* the class [.!?] of _score_basic_structure
IsSentencePunct(c) == c \in {46, 33, 63}

LowerText(w) == [k \in 1..Len(w) |-> Lower(w[k])]

\* first position >= pos holding a non-space character, Len(t)+1 if none
RECURSIVE SkipWs(_, _)
SkipWs(t, pos) ==
    IF pos > Len(t) THEN Len(t) + 1
    ELSE IF IsSpace(t[pos]) THEN SkipWs(t, pos + 1) ELSE pos

\* first position >= pos holding a space character, Len(t)+1 if none
RECURSIVE SkipWord(_, _)
SkipWord(t, pos) ==
    IF pos > Len(t) THEN Len(t) + 1
    ELSE IF IsSpace(t[pos]) THEN pos ELSE SkipWord(t, pos + 1)

\* str.split(): the maximal runs of non-space characters
RECURSIVE SplitFrom(_, _)
SplitFrom(t, pos) ==
    LET s == SkipWs(t, pos)
    IN  IF s > Len(t) THEN << >>
        ELSE LET e == SkipWord(t, s)
             IN  <<SubSeq(t, s, e - 1)>> \o SplitFrom(t, e)

Split(t) == SplitFrom(t, 1)

\* last position <= pos holding a non-space character, 0 if none
RECURSIVE LastNonWs(_, _)
LastNonWs(t, pos) ==
    IF pos < 1 THEN 0
    ELSE IF IsSpace(t[pos]) THEN LastNonWs(t, pos - 1) ELSE pos

\* str.strip()
Strip(t) == SubSeq(t, SkipWs(t, 1), LastNonWs(t, Len(t)))

\* " ".join(words)
RECURSIVE JoinSp(_)
JoinSp(ws) ==
    IF ws = << >> THEN << >>
    ELSE IF Len(ws) = 1 THEN ws[1]
    ELSE ws[1] \o <<32>> \o JoinSp(Tail(ws))

\* "".join(parts)
RECURSIVE Concat(_)
Concat(ps) == IF ps = << >> THEN << >> ELSE ps[1] \o Concat(Tail(ps))

\* len(set(word.lower() for word in words))
UniqueWords(ws) == Cardinality({LowerText(ws[k]) : k \in 1..Len(ws)})

(***************************************************************************)
(* LightweightLoopDetector (core/loop_detector.py)                         *)
(***************************************************************************)
\* min_text_length of LightweightLoopDetector.__init__
MinTextLength == 20
\* min_word_diversity = 0.3
MinWordDiversity == Rat(3, 10)
\* the word count from which _detect_low_diversity flags a text
MinDiversityWords == 10

NoMatch == [found |-> FALSE, start |-> 0, end |-> 0]
Match(s, e) == [found |-> TRUE, start |-> s, end |-> e]

\* \b followed by \w: a word character not preceded by one
WordStartAt(t, i) == IsWordChar(t[i]) /\ (i = 1 \/ ~IsWordChar(t[i - 1]))

\* the back-reference \1 under re.IGNORECASE: g read at pos, case folded
MatchAt(t, pos, g) ==
    /\ pos + Len(g) - 1 <= Len(t)
    /\ \A k \in 1..Len(g) : Lower(t[pos + k - 1]) = Lower(g[k])

\* (?:\1\s*){n,} read greedily from pos: how many copies, and where it ends.
\* A copy starts with a word character, so each \s* takes its whole run.
RECURSIVE RepsTrail(_, _, _)
RepsTrail(t, pos, g) ==
    IF MatchAt(t, pos, g)
    THEN LET r == RepsTrail(t, SkipWs(t, pos + Len(g)), g)
         IN  [count |-> r.count + 1, end |-> r.end]
    ELSE [count |-> 0, end |-> pos]

\* (?:\s+\1){n,} read greedily from pos
RECURSIVE RepsLead(_, _, _)
RepsLead(t, pos, g) ==
    IF pos <= Len(t) /\ IsSpace(t[pos]) /\ MatchAt(t, SkipWs(t, pos), g)
    THEN LET r == RepsLead(t, SkipWs(t, pos) + Len(g), g)
         IN  [count |-> r.count + 1, end |-> r.end]
    ELSE [count |-> 0, end |-> pos]

\* the span i..j reads as \w+(?:\s+\w+){0,2}
IsPhraseGroup(t, i, j) ==
    /\ IsWordChar(t[i]) /\ IsWordChar(t[j])
    /\ \A k \in i..j : IsWordChar(t[k]) \/ IsSpace(t[k])
    /\ Cardinality({k \in i..j : IsSpace(t[k]) /\ ~IsSpace(t[k - 1])}) <= 2

\* the leftmost match, and at that start the one the greedy search finds
\* first: the longest group that matches
FirstMatch(cands) ==
    IF cands = {} THEN NoMatch
    ELSE LET i == CHOOSE a \in {c[1] : c \in cands} :
                      \A b \in {c[1] : c \in cands} : a <= b
             c == CHOOSE c \in cands :
                      c[1] = i /\ \A o \in cands : o[1] = i => o[2] <= c[2]
         IN  Match(i, c[3])

\* 'phrase_loop': \b(\w+(?:\s+\w+){0,2})\s+(?:\1\s*){3,}
\* (a group of j-i+1 characters needs four copies and a space after it)
phrase_loop(t) ==
    FirstMatch({<<i, j, RepsTrail(t, SkipWs(t, j + 1), SubSeq(t, i, j)).end>> :
        <<i, j>> \in {p \in (1..Len(t)) \X (1..Len(t)) :
            /\ p[1] <= p[2]
            /\ 4 * (p[2] - p[1] + 1) < Len(t) - p[1] + 1
            /\ WordStartAt(t, p[1])
            /\ IsSpace(t[p[2] + 1])
            /\ IsPhraseGroup(t, p[1], p[2])
            /\ RepsTrail(t, SkipWs(t, p[2] + 1),
                         SubSeq(t, p[1], p[2])).count >= 3}})

\* o\s+que\s+é read at pos: the position after it, 0 if it does not match
OQueEAt(t, pos) ==
    LET q == SkipWs(t, pos + 1)
        e == SkipWs(t, q + 3)
    IN  IF /\ MatchAt(t, pos, <<111>>)
           /\ q > pos + 1
           /\ MatchAt(t, q, <<113, 117, 101>>)
           /\ e > q + 3
           /\ MatchAt(t, e, <<233>>)
        THEN e + 1 ELSE 0

\* (?:\s+o\s+que\s+é){n,} read greedily from pos
RECURSIVE OQueEReps(_, _)
OQueEReps(t, pos) ==
    IF pos <= Len(t) /\ IsSpace(t[pos]) /\ OQueEAt(t, SkipWs(t, pos)) # 0
    THEN LET r == OQueEReps(t, OQueEAt(t, SkipWs(t, pos)))
         IN  [count |-> r.count + 1, end |-> r.end]
    ELSE [count |-> 0, end |-> pos]

\* 'o_que_e_loop': \bo\s+que\s+é(?:\s+o\s+que\s+é){2,}
o_que_e_loop(t) ==
    FirstMatch({<<i, i, OQueEReps(t, OQueEAt(t, i)).end>> :
        i \in {p \in 1..Len(t) :
            /\ WordStartAt(t, p)
            /\ OQueEAt(t, p) # 0
            /\ OQueEReps(t, OQueEAt(t, p)).count >= 2}})

\* 'word_loop': \b(\w+)(?:\s+\1){4,}
word_loop(t) ==
    FirstMatch({<<i, j, RepsLead(t, j + 1, SubSeq(t, i, j)).end>> :
        <<i, j>> \in {p \in (1..Len(t)) \X (1..Len(t)) :
            /\ p[1] <= p[2]
            /\ 5 * (p[2] - p[1] + 1) < Len(t) - p[1] + 1
            /\ WordStartAt(t, p[1])
            /\ \A k \in p[1]..p[2] : IsWordChar(t[k])
            /\ RepsLead(t, p[2] + 1, SubSeq(t, p[1], p[2])).count >= 4}})

\* 'excessive_repetition': \b(\w{2,})\s*(?:\1\s*){6,}
excessive_repetition(t) ==
    FirstMatch({<<i, j, RepsTrail(t, SkipWs(t, j + 1), SubSeq(t, i, j)).end>> :
        <<i, j>> \in {p \in (1..Len(t)) \X (1..Len(t)) :
            /\ p[1] < p[2]
            /\ 7 * (p[2] - p[1] + 1) <= Len(t) - p[1] + 1
            /\ WordStartAt(t, p[1])
            /\ \A k \in p[1]..p[2] : IsWordChar(t[k])
            /\ RepsTrail(t, SkipWs(t, p[2] + 1),
                         SubSeq(t, p[1], p[2])).count >= 6}})

\* _calculate_word_diversity
calculate_word_diversity(t) ==
    LET ws == Split(t)
    IN  IF ws = << >> THEN ROne ELSE Rat(UniqueWords(ws), Len(ws))

\* _calculate_pattern_confidence: min(len(match) / len(text) * 2, 1.0)
calculate_pattern_confidence(m, t) ==
    RMin(Rat(2 * (m.end - m.start), Len(t)), ROne)

LoopDetectionResult(has_loop, loop_type, confidence, pattern, diversity) ==
    [has_loop |-> has_loop, loop_type |-> loop_type, confidence |-> confidence,
     pattern |-> pattern, word_diversity |-> diversity]

\* match.group(0)[:50] + "..." if len(match.group(0)) > 50 else match.group(0)
PatternText(m, t) ==
    IF m.end - m.start > 50
    THEN SubSeq(t, m.start, m.start + 49) \o <<46, 46, 46>>
    ELSE SubSeq(t, m.start, m.end - 1)

PatternHit(name, m, t) ==
    LoopDetectionResult(TRUE, name, calculate_pattern_confidence(m, t),
                        PatternText(m, t), RZero)

\* _detect_patterns: the patterns in the order of the dict, first hit wins
detect_patterns(t) ==
    IF t = << >> THEN LoopDetectionResult(FALSE, "no_pattern", RZero, << >>, RZero)
    ELSE IF phrase_loop(t).found
         THEN PatternHit("pattern_phrase_loop", phrase_loop(t), t)
    ELSE IF o_que_e_loop(t).found
         THEN PatternHit("pattern_o_que_e_loop", o_que_e_loop(t), t)
    ELSE IF word_loop(t).found
         THEN PatternHit("pattern_word_loop", word_loop(t), t)
    ELSE IF excessive_repetition(t).found
         THEN PatternHit("pattern_excessive_repetition", excessive_repetition(t), t)
    ELSE LoopDetectionResult(FALSE, "no_pattern", RZero, << >>, RZero)

\* _detect_low_diversity
detect_low_diversity(t) ==
    LET diversity == calculate_word_diversity(t)
    IN  IF RLt(diversity, MinWordDiversity) /\ Len(Split(t)) >= MinDiversityWords
        THEN LoopDetectionResult(TRUE, "low_diversity", RSub(ROne, diversity),
                                 << >>, diversity)
        ELSE LoopDetectionResult(FALSE, "good_diversity", RZero, << >>, diversity)

\* _validate_length_ratio, audio_duration = D/10 seconds:
\*   words > (audio_duration / 60.0) * 250 * 2        <=>  6 * words > 5 * D
\*   words < (audio_duration / 60.0) * 100 * 0.3      <=>  20 * words < D
\*   audio_duration > 5                               <=>  D > 50
validate_length_ratio(t, D) ==
    LET words == Len(Split(t))
    IN  IF D <= 0
        THEN LoopDetectionResult(FALSE, "no_duration", RZero, << >>, RZero)
        ELSE IF 6 * words > 5 * D
        THEN LoopDetectionResult(TRUE, "excessive_length", Rat(7, 10), << >>, RZero)
        ELSE IF 20 * words < D /\ D > 50
        THEN LoopDetectionResult(TRUE, "insufficient_length", Rat(6, 10), << >>, RZero)
        ELSE LoopDetectionResult(FALSE, "appropriate_length", RZero, << >>, RZero)

\* _clean_text
clean_text(text) ==
    LET n == JoinSp(Split(text))
    IN  Strip([k \in 1..Len(n) |-> IF IsCleanPunct(n[k]) THEN 32 ELSE n[k]])

\* detect with the low-diversity test ahead of the pattern test
detect_diversity_first(text, D) ==
    IF text = << >> \/ Len(Strip(text)) < MinTextLength
    THEN LoopDetectionResult(FALSE, "too_short", RZero, << >>, RZero)
    ELSE LET cleaned   == clean_text(text)
             pattern   == detect_patterns(cleaned)
             diversity == detect_low_diversity(cleaned)
             length    == validate_length_ratio(cleaned, D)
         IN  IF diversity.has_loop THEN diversity
             ELSE IF pattern.has_loop THEN pattern
             ELSE IF length.has_loop THEN length
             ELSE LoopDetectionResult(FALSE, "clean", RZero, << >>,
                                      calculate_word_diversity(cleaned))

\* LightweightLoopDetector.detect
detect(text, D) ==
    IF text = << >> \/ Len(Strip(text)) < MinTextLength
    THEN LoopDetectionResult(FALSE, "too_short", RZero, << >>, RZero)
    ELSE LET cleaned   == clean_text(text)
             pattern   == detect_patterns(cleaned)
             diversity == detect_low_diversity(cleaned)
             length    == validate_length_ratio(cleaned, D)
         IN  IF pattern.has_loop THEN pattern
             ELSE IF diversity.has_loop THEN diversity
             ELSE IF length.has_loop THEN length
             ELSE LoopDetectionResult(FALSE, "clean", RZero, << >>,
                                      calculate_word_diversity(cleaned))

(***************************************************************************)
(* QuickQualityValidator (core/loop_detector.py)                           *)
(***************************************************************************)
\* min_quality_threshold = 0.6
MinQualityThreshold == Rat(6, 10)

\* _score_word_diversity
score_word_diversity(text) ==
    LET ws == Split(text)
    IN  IF Len(ws) < 3 THEN Rat(8, 10)
        ELSE RMin(Rat(2 * UniqueWords(ws), Len(ws)), ROne)

\* _score_basic_structure
score_basic_structure(text) ==
    LET has_punctuation == \E k \in 1..Len(text) : IsSentencePunct(text[k])
        has_capital     == \E k \in 1..Len(text) : IsAsciiUpper(text[k])
    IN  RAdd(Rat(1, 2),
             RAdd(IF has_punctuation THEN Rat(1, 4) ELSE RZero,
                  IF has_capital THEN Rat(1, 4) ELSE RZero))

\* _score_length_appropriateness: words_per_minute = 600 * words / D
score_length_appropriateness(text, D) ==
    LET w600 == 600 * Len(Split(text))
    IN  IF D <= 0 THEN Rat(7, 10)
        ELSE IF 120 * D <= w600 /\ w600 <= 200 * D THEN ROne
        ELSE IF 80 * D <= w600 /\ w600 <= 300 * D THEN Rat(8, 10)
        ELSE IF 50 * D <= w600 /\ w600 <= 400 * D THEN Rat(6, 10)
        ELSE Rat(3, 10)

\* _score_repetition_penalty: a fresh detector, no audio duration
score_repetition_penalty(text) ==
    LET result == detect(text, 0)
    IN  IF result.has_loop THEN RSub(ROne, result.confidence) ELSE ROne

\* QuickQualityValidator.validate
validate(text, D) ==
    IF text = << >> \/ Len(Strip(text)) < 5 THEN RZero
    ELSE RMin(RMax(
            RAdd(RAdd(RMul(score_word_diversity(text), Rat(3, 10)),
                      RMul(score_basic_structure(text), Rat(2, 10))),
                 RAdd(RMul(score_length_appropriateness(text, D), Rat(2, 10)),
                      RMul(score_repetition_penalty(text), Rat(3, 10)))),
            RZero), ROne)

\* QuickQualityValidator.is_acceptable_quality
is_acceptable_quality(text, D) == RLe(MinQualityThreshold, validate(text, D))

(***************************************************************************)
(* Sample transcripts: what the engine may return                          *)
(***************************************************************************)
\* the empty transcript
TxtEmpty ==
    << >>

\* a transcript of spaces only
TxtBlank ==
    <<32, 32>>

\* "Bom dia."
TxtShort ==
    <<66, 111, 109, 32, 100, 105, 97, 46>>

\* "Hoje vamos falar sobre o projeto."
TxtGood ==
    <<72, 111, 106, 101, 32, 118, 97, 109, 111, 115, 32, 102, 97, 108,
      97, 114, 32, 115, 111, 98, 114, 101, 32, 111, 32, 112, 114, 111,
      106, 101, 116, 111, 46>>

\* "o que é o que é o que é o que é"
TxtLoop ==
    <<111, 32, 113, 117, 101, 32, 233, 32, 111, 32, 113, 117, 101, 32,
      233, 32, 111, 32, 113, 117, 101, 32, 233, 32, 111, 32, 113, 117,
      101, 32, 233>>

\* "o que é o que é"
TxtLoopFrag ==
    <<111, 32, 113, 117, 101, 32, 233, 32, 111, 32, 113, 117, 101, 32, 233>>

\* "no no no no no"
TxtWeak ==
    <<110, 111, 32, 110, 111, 32, 110, 111, 32, 110, 111, 32, 110, 111>>

\* "a a a a a a"
TxtPoor ==
    <<97, 32, 97, 32, 97, 32, 97, 32, 97, 32, 97>>

\* texts the engine may return for a whole unit
EngineTexts == {TxtEmpty, TxtBlank, TxtGood, TxtLoop, TxtWeak, TxtPoor}
\* texts the engine may return for one sub-chunk of SMALLER_CHUNKS
ChunkTexts == {TxtShort, TxtLoopFrag}

(***************************************************************************)
(* String literals of core/recovery_manager.py                             *)
(***************************************************************************)
\* "[Áudio de "
EmergencyHead ==
    <<91, 193, 117, 100, 105, 111, 32, 100, 101, 32>>

\* "s - Transcrição não disponível devido a problemas técnicos]"
EmergencyTail ==
    <<115, 32, 45, 32, 84, 114, 97, 110, 115, 99, 114, 105, 231, 227,
      111, 32, 110, 227, 111, 32, 100, 105, 115, 112, 111, 110, 237, 118,
      101, 108, 32, 100, 101, 118, 105, 100, 111, 32, 97, 32, 112, 114,
      111, 98, 108, 101, 109, 97, 115, 32, 116, 233, 99, 110, 105, 99,
      111, 115, 93>>

\* "[ERRO DE TRANSCRIÇÃO - "
ErrorHead ==
    <<91, 69, 82, 82, 79, 32, 68, 69, 32, 84, 82, 65, 78, 83, 67, 82, 73,
      199, 195, 79, 32, 45, 32>>

\* "]\nÁudio: "
ErrorAudio ==
    <<93, 10, 193, 117, 100, 105, 111, 58, 32>>

\* "\nDuração: "
ErrorDuration ==
    <<10, 68, 117, 114, 97, 231, 227, 111, 58, 32>>

\* "s\nStatus: Todas as estratégias de recuperação falharam\nRecomendação: Verificar qualidade do áudio ou tentar transcrição manual"
ErrorTail ==
    <<115, 10, 83, 116, 97, 116, 117, 115, 58, 32, 84, 111, 100, 97, 115,
      32, 97, 115, 32, 101, 115, 116, 114, 97, 116, 233, 103, 105, 97,
      115, 32, 100, 101, 32, 114, 101, 99, 117, 112, 101, 114, 97, 231,
      227, 111, 32, 102, 97, 108, 104, 97, 114, 97, 109, 10, 82, 101, 99,
      111, 109, 101, 110, 100, 97, 231, 227, 111, 58, 32, 86, 101, 114,
      105, 102, 105, 99, 97, 114, 32, 113, 117, 97, 108, 105, 100, 97,
      100, 101, 32, 100, 111, 32, 225, 117, 100, 105, 111, 32, 111, 117,
      32, 116, 101, 110, 116, 97, 114, 32, 116, 114, 97, 110, 115, 99,
      114, 105, 231, 227, 111, 32, 109, 97, 110, 117, 97, 108>>

\* "12:00:00"
Timestamp ==
    <<49, 50, 58, 48, 48, 58, 48, 48>>

(***************************************************************************)
(* core/recovery_manager.py: audio files, probes and the four strategies   *)
(*                                                                         *)
(* An audio file is a record                                               *)
(*   name     its base name                                                *)
(*   exists   the path names a file on disk                                *)
(*   readable ffprobe exits 0 on it and prints a number                    *)
(*   dur      the duration ffprobe prints, in tenths of a second           *)
(*   size     os.path.getsize / 400, i.e. the size-based estimate          *)
(*            file_size / 4000 seconds expressed in tenths of a second     *)
(* "tools" says whether the ffprobe/ffmpeg executables are installed; when *)
(* they are not, subprocess.run raises FileNotFoundError.                  *)
(* A call outcome is [raised, value]: an exception, or the returned value. *)
(***************************************************************************)
CONSERVATIVE_SETTINGS == "conservative_settings"
SMALLER_CHUNKS == "smaller_chunks"
TINY_MODEL == "tiny_model"
EMERGENCY_FALLBACK == "emergency_fallback"

\* self.strategies, by the RecoveryStrategy each function name maps to
strategies ==
    <<CONSERVATIVE_SETTINGS, SMALLER_CHUNKS, TINY_MODEL, EMERGENCY_FALLBACK>>

RaisedNum == [raised |-> TRUE, value |-> 0]
ReturnedNum(v) == [raised |-> FALSE, value |-> v]
RaisedText == [raised |-> TRUE, value |-> << >>]
ReturnedText(t) == [raised |-> FALSE, value |-> t]

\* max(estimated_duration, 10): ten seconds, in tenths
MinEstimate == 100
\* target_chunk_duration = 10 seconds, in tenths
TargetChunkDuration == 100

\* _get_audio_duration: only CalledProcessError and ValueError are caught, so
\* a missing ffprobe (FileNotFoundError) and a failing os.path.getsize
\* (OSError) propagate to the caller
get_audio_duration(f, tools) ==
    IF ~tools THEN RaisedNum
    ELSE IF f.exists /\ f.readable THEN ReturnedNum(f.dur)
    ELSE IF ~f.exists THEN RaisedNum
    ELSE ReturnedNum(IF f.size > MinEstimate THEN f.size ELSE MinEstimate)

Digit(n) == 48 + n

RECURSIVE Digits(_)
Digits(n) == IF n < 10 THEN <<Digit(n)>>
             ELSE Digits(n \div 10) \o <<Digit(n % 10)>>

\* f"{duration:.1f}" for a duration held in tenths of a second
FormatF1(d) == Digits(d \div 10) \o <<46>> \o <<Digit(d % 10)>>

\* the placeholder _strategy_emergency_fallback returns
EmergencyText(d) == EmergencyHead \o FormatF1(d) \o EmergencyTail

\* chunk_count of _split_audio
chunk_count(d) ==
    (d \div TargetChunkDuration)
        + (IF d % TargetChunkDuration > 0 THEN 1 ELSE 0)

\* What may happen to one sub-chunk: ffmpeg fails to cut it (it is skipped),
\* or it is cut and the engine raises on it or returns a text.
CutFailed == [cut |-> FALSE, raised |-> FALSE, value |-> << >>]
ChunkRaised == [cut |-> TRUE, raised |-> TRUE, value |-> << >>]
ChunkText(t) == [cut |-> TRUE, raised |-> FALSE, value |-> t]
ChunkOutcomes == {CutFailed, ChunkRaised} \cup {ChunkText(t) : t \in ChunkTexts}
EngineOutcomes == {RaisedText} \cup {ReturnedText(t) : t \in EngineTexts}

\* the input of one strategy run: what the engine does when the strategy
\* calls it on the whole file, and what happens to each sub-chunk
NoInput == [engine |-> RaisedText, chunks |-> << >>]

\* _strategy_conservative_settings: the engine's answer, or its exception
strategy_conservative_settings(inp) == inp.engine

\* transcription_parts of _strategy_smaller_chunks
RECURSIVE transcription_parts(_)
transcription_parts(cs) ==
    IF cs = << >> THEN << >>
    ELSE LET part == Strip(Head(cs).value)
         IN  (IF part # << >> THEN <<part>> ELSE << >>)
                 \o transcription_parts(Tail(cs))

\* _strategy_smaller_chunks with _split_audio
strategy_smaller_chunks(f, tools, inp) ==
    LET duration == get_audio_duration(f, tools)
    IN  IF duration.raised THEN RaisedText
        ELSE IF duration.value <= TargetChunkDuration
            THEN strategy_conservative_settings(inp)
        ELSE LET chunks == SelectSeq(inp.chunks, LAMBDA c : c.cut)
             IN  IF \E i \in 1..Len(chunks) : chunks[i].raised
                 THEN RaisedText
                 ELSE ReturnedText(JoinSp(transcription_parts(chunks)))

\* _strategy_tiny_model: the tiny engine's answer; any exception is re-raised
strategy_tiny_model(inp) == inp.engine

\* _strategy_emergency_fallback
strategy_emergency_fallback(f, tools) ==
    LET duration == get_audio_duration(f, tools)
    IN  IF duration.raised THEN RaisedText
        ELSE ReturnedText(EmergencyText(duration.value))

\* strategy_func(audio_path, problematic_text, original_settings), i-th strategy
strategy_func(i, f, tools, inp) ==
    CASE i = 1 -> strategy_conservative_settings(inp)
      [] i = 2 -> strategy_smaller_chunks(f, tools, inp)
      [] i = 3 -> strategy_tiny_model(inp)
      [] OTHER -> strategy_emergency_fallback(f, tools)

\* the inputs the i-th strategy consumes on file f
StrategyInputs(i, f, tools) ==
    LET whole == {[engine |-> o, chunks |-> << >>] : o \in EngineOutcomes}
        duration == get_audio_duration(f, tools)
    IN  CASE i \in {1, 3} -> whole
          [] i = 2 ->
               IF duration.raised THEN {NoInput}
               ELSE IF duration.value <= TargetChunkDuration THEN whole
               ELSE {[engine |-> RaisedText, chunks |-> cs] :
                        cs \in [1..chunk_count(duration.value) -> ChunkOutcomes]}
          [] OTHER -> {NoInput}

\* _generate_emergency_text: `audio_duration or self._get_audio_duration(..)`
generate_emergency_text(f, tools, D) ==
    LET duration == IF D # 0 THEN ReturnedNum(D)
                    ELSE get_audio_duration(f, tools)
    IN  IF duration.raised THEN RaisedText
        ELSE ReturnedText(ErrorHead \o Timestamp \o ErrorAudio \o f.name
                            \o ErrorDuration \o FormatF1(duration.value)
                            \o ErrorTail)

(***************************************************************************)
(* The files a run may meet                                                *)
(***************************************************************************)
AudioFile(name, exists, readable, dur, size) ==
    [name |-> name, exists |-> exists, readable |-> readable,
     dur |-> dur, size |-> size]

\* "s.wav": 8 s, not longer than one sub-chunk
FileShort == AudioFile(<<115, 46, 119, 97, 118>>, TRUE, TRUE, 80, 40)
\* "m.wav": 15 s, two sub-chunks
FileMid == AudioFile(<<109, 46, 119, 97, 118>>, TRUE, TRUE, 150, 200)
\* "l.wav": 30 s, three sub-chunks
FileLong == AudioFile(<<108, 46, 119, 97, 118>>, TRUE, TRUE, 300, 200)
\* "u.wav": on disk but ffprobe fails on it; the size estimate is 20 s
FileUnreadable == AudioFile(<<117, 46, 119, 97, 118>>, TRUE, FALSE, 300, 200)
\* "t.wav": on disk, ffprobe fails, the size estimate (4 s) is below 10 s
FileTiny == AudioFile(<<116, 46, 119, 97, 118>>, TRUE, FALSE, 80, 40)
\* "g.wav": no longer on disk
FileGone == AudioFile(<<103, 46, 119, 97, 118>>, FALSE, FALSE, 150, 0)

Files == {FileShort, FileMid, FileLong, FileUnreadable, FileTiny, FileGone}

\* the audio_duration values a caller may pass; 0 stands for None and 0.0
Durations == {0} \cup {f.dur : f \in Files}

\* the transcripts handed to recover_transcription as problematic_text
ProblemTexts == {TxtLoop, TxtGood}

\* every duration _get_audio_duration can return on these files
ProbeDurations ==
    {get_audio_duration(f, TRUE).value :
        f \in {g \in Files : ~get_audio_duration(g, TRUE).raised}}

\* every text SMALLER_CHUNKS can assemble: the sub-chunks that were cut and
\* answered, joined
JoinedTexts ==
    {JoinSp(transcription_parts(cs)) :
        cs \in UNION {[1..n -> {ChunkText(t) : t \in ChunkTexts}] :
                        n \in UNION {0..chunk_count(d) : d \in ProbeDurations}}}

\* every text the detector and the validator can be asked about
AllTexts ==
    ProblemTexts \cup EngineTexts \cup JoinedTexts
        \cup {EmergencyText(d) : d \in ProbeDurations}

\* detect, validate and is_acceptable_quality tabulated over AllTexts
Analysis ==
    [p \in AllTexts \X Durations |->
        [detect |-> detect(p[1], p[2]),
         score |-> validate(p[1], p[2]),
         acceptable |-> is_acceptable_quality(p[1], p[2])]]

(***************************************************************************)
(* State                                                                   *)
(*                                                                         *)
(* memo           the Analysis table, fixed at Init; Detect, Validate and  *)
(*                IsAcceptable read the detector and the validator off it  *)
(* tools_installed  whether ffprobe and ffmpeg are on this machine         *)
(* CoreRecoveryManager.recover_transcription:                              *)
(* rm_pc          "idle", "strategy" (inside the for loop), "final" (after *)
(*                the loop), "returned" or "raised"                        *)
(* rm_args        the arguments and environment of the call in progress    *)
(* recovery_log, best_result, best_quality, problem_type   its locals      *)
(* rm_result      the RecoveryResult it returned                           *)
(* stats          self.stats, without the wall-clock entries               *)
(* engine_trace   history: how many engine calls the call in progress made *)
(*                and how many of them returned normally, and how often    *)
(*                SMALLER_CHUNKS delegated to CONSERVATIVE_SETTINGS        *)
(* TranscriptionThread and the BatchTranscriptionThread it runs:           *)
(* audio_files    files_to_transcribe, the prepared input units            *)
(* on_disk        the units whose file is still in the audio folder        *)
(* file_cache     the units FileCache holds a duration for                 *)
(* hw             what psutil reports, once the run has asked              *)
(* is_running     TranscriptionThread._is_running                          *)
(* batch_is_running  BatchTranscriptionThread._is_running                  *)
(* th_pc          where run() stands                                       *)
(* idx            how many units the current loop has passed               *)
(* unit_state     per unit: "idle", "queued" (submitted to the pool),      *)
(*                "running" (engine call in flight), "nofile" (in flight   *)
(*                on a file that was gone when the call began), "done"     *)
(* full_transcription  the sequential path's list, as [unit, text]         *)
(* results        the batch thread's result list                           *)
(* final_report   the transcripts of the report handed to                  *)
(*                transcription_finished, as [unit, text]                  *)
(* events         the signals emitted so far                               *)
(* trace          history, per unit: what the engine returned, the duration *)
(*                probed, whether the detector saw the text and flagged    *)
(*                it, what recovery did, the text that was kept            *)
(* late_starts    history: the units whose engine call began after stop()  *)
(* cache_calls    history: the mutating calls made on file_cache, as       *)
(*                [op, thread]                                             *)
(***************************************************************************)
VARIABLES memo, tools_installed, rm_pc, rm_args, recovery_log, best_result, best_quality,
          problem_type, rm_result, stats, engine_trace

rmVars == <<rm_pc, rm_args, recovery_log, best_result, best_quality,
            problem_type, rm_result, stats, engine_trace>>

VARIABLES audio_files, on_disk, file_cache, hw, is_running, batch_is_running,
          th_pc, idx, unit_state, full_transcription, results, final_report,
          events, trace, late_starts, cache_calls

thVars == <<audio_files, on_disk, file_cache, hw, is_running, batch_is_running,
            th_pc, idx, unit_state, full_transcription, results, final_report,
            events, trace, late_starts, cache_calls>>

(***************************************************************************)
(* State of one call of _split_audio_with_ffmpeg_silence.  Times are       *)
(* whole seconds.                                                          *)
(* sp_pc          "absent", "called", "cutting", "returned"                *)
(* total_duration, target_chunk_duration, silence_starts                   *)
(*                the file's probed duration, the argument, and the        *)
(*                silence_start times parsed from the detector's output    *)
(* cut_points     the planned chunk ends                                   *)
(* last_start     the start of the next chunk to cut                       *)
(* chunk_log      history: one [start, end, ok] per cut command run        *)
(* sp_result      what the call returned: "none", "empty", "time_split",   *)
(*                "whole_file" or "chunks"                                 *)
(***************************************************************************)
VARIABLES sp_pc, total_duration, target_chunk_duration, silence_starts,
          cut_points, last_start, chunk_log, sp_result

spVars == <<sp_pc, total_duration, target_chunk_duration, silence_starts,
            cut_points, last_start, chunk_log, sp_result>>

(***************************************************************************)
(* State of one call of BatchTranscriptionThread._process_files_in_batches *)
(* on a thread built over files 1..dp_files, with the engine's work on a   *)
(* file reduced to whether it succeeded.                                   *)
(* dp_pc          "absent", "created", "batch_loop", "batch_wait",         *)
(*                "seq_loop", "seq_engine", "returned"                     *)
(* auto_batch_size, batch_size   the two settings of the thread            *)
(* dp_hw          what get_hardware_info() answered, once asked            *)
(* dp_batch_size  the local batch_size, once computed (-1 before)          *)
(* dp_i           the loop variable i: the files before it are dealt with  *)
(* dp_state       per file: "idle", "queued" (submitted to the pool),      *)
(*                "running", "done"                                        *)
(* dp_results     the result list, as [file_path, success]                 *)
(* dp_status      the update_status events emitted, as [text, file,        *)
(*                progress], progress in percent as a fraction             *)
(* dp_batches     history: the batches formed, as [first, last, pool]      *)
(* dp_fell_back   history: the except branch of line 248 was taken         *)
(***************************************************************************)
VARIABLES dp_pc, dp_files, auto_batch_size, batch_size, dp_hw, dp_batch_size,
          dp_i, dp_state, dp_results, dp_status, dp_batches, dp_fell_back

dpVars == <<dp_pc, dp_files, auto_batch_size, batch_size, dp_hw,
            dp_batch_size, dp_i, dp_state, dp_results, dp_status,
            dp_batches, dp_fell_back>>

(***************************************************************************)
(* State of the FileCache and of the one file it is asked about.  mtime    *)
(* is in half seconds, the clock and cached_at are in hours.               *)
(* fs_stat        the file: [exists, size, mtime, dur]                     *)
(* cache_info     self.cache.get(filepath): NoEntry, or                    *)
(*                [duration, size, mtime, cached_at]                       *)
(* clock          time.time()                                              *)
(* stored         history: the [duration] of the last set_duration whose   *)
(*                file has not been written, removed or replaced since     *)
(* fc_last        history: the last call made, as [op, value, probed,      *)
(*                had_stored]                                              *)
(***************************************************************************)
VARIABLES fs_stat, cache_info, clock, stored, fc_last

fcVars == <<fs_stat, cache_info, clock, stored, fc_last>>

(***************************************************************************)
(* State of one call of LightweightLoopDetector.detect.                    *)
(* dt_pc          "absent", "called", "returned"                           *)
(* dt_text        the text argument, as character codes                    *)
(* dt_duration    the audio_duration argument in tenths of a second, 0     *)
(*                for a call without one                                   *)
(* dt_result      the LoopDetectionResult returned                         *)
(***************************************************************************)
VARIABLES dt_pc, dt_text, dt_duration, dt_result

dtVars == <<dt_pc, dt_text, dt_duration, dt_result>>

(***************************************************************************)
(* State of step 3 of _get_files_to_transcribe for one prepared file: the  *)
(* file is split, by silence or by time, and removed if it was extracted   *)
(* from a video.  Times are whole seconds.                                 *)
(* sg_pc          "absent", "called", "cutting", "split" (the splitter has *)
(*                returned), "prepared" (lines 530-537 have run)           *)
(* sg_file        the file: [extracted, total_duration, silence_starts,    *)
(*                exists]                                                  *)
(* sg_target      self.smart_chunk_duration_seconds                        *)
(* sg_mode        "none", "silence" or "time": which splitter is cutting   *)
(* sg_plan        the chunks to cut, as [start, end]                       *)
(* sg_cuts        history: per cut command run, whether it succeeded       *)
(* chunk_files    the splitter's list of chunks created, by number         *)
(* sg_on_disk     the chunks of the file now on disk, by number            *)
(* sg_returned    what the splitter returned: "original" or chunk numbers  *)
(* sg_probe       history: "none", "ok" or "failed", the duration probe    *)
(***************************************************************************)
VARIABLES sg_pc, sg_file, sg_target, sg_mode, sg_plan, sg_cuts, chunk_files,
          sg_on_disk, sg_returned, sg_probe

sgVars == <<sg_pc, sg_file, sg_target, sg_mode, sg_plan, sg_cuts, chunk_files,
            sg_on_disk, sg_returned, sg_probe>>

(***************************************************************************)
(* State of the construction of the engine by TranscriptionThread.run and, *)
(* on the batched path, by BatchTranscriptionThread.run.                   *)
(* eg_pc          "absent", "unloaded" (nothing imported yet),             *)
(*                "import_failed", "created", "loaded" (run holds a        *)
(*                model), "batch_created", "proceeds", "failed"            *)
(* eg_settings    whisper_settings: [model_size, device, compute_type,     *)
(*                use_batch_processing]                                    *)
(* cpu_threads    self.cpu_threads                                         *)
(* eg_units       how many units were prepared                             *)
(* eg_hw          the memory and the physical cores psutil reports         *)
(* eg_pipeline    faster_whisper provides BatchedInferencePipeline         *)
(* eg_path        history: "none", "sequential" or "batched"               *)
(* eg_tries       history: the WhisperModel constructions tried, as        *)
(*                [thread, config, ok]                                     *)
(***************************************************************************)
VARIABLES eg_pc, eg_settings, cpu_threads, eg_units, eg_hw, eg_pipeline,
          eg_tries, eg_path

egVars == <<eg_pc, eg_settings, cpu_threads, eg_units, eg_hw, eg_pipeline,
            eg_tries, eg_path>>

(***************************************************************************)
(* State of the batch plan of _process_files_in_batches: the batch size    *)
(* and the slices of the file list, without the work done on them.         *)
(* bs_pc          "absent", "called", "slicing", "done", "raised"          *)
(* bs_hw          what get_hardware_info() answers                         *)
(* bs_files       len(self.audio_files)                                    *)
(* bs_size        the local batch_size (-1 before it is computed)          *)
(* total_batches  batch_stats["total_batches"]                             *)
(* bs_batches     history: the slices formed, as [first, last]             *)
(***************************************************************************)
VARIABLES bs_pc, bs_hw, bs_files, bs_size, total_batches, bs_batches

bsVars == <<bs_pc, bs_hw, bs_files, bs_size, total_batches, bs_batches>>

extVars == <<dtVars, sgVars, egVars, bsVars>>

auxVars == <<spVars, dpVars, fcVars, extVars>>

DispatchIdle ==
    /\ dp_pc = "absent"
    /\ dp_files = 0
    /\ auto_batch_size = TRUE
    /\ batch_size = 0
    /\ dp_hw = [memory_gb |-> 0, physical_cores |-> 0]
    /\ dp_batch_size = -1
    /\ dp_i = 0
    /\ dp_state = << >>
    /\ dp_results = << >>
    /\ dp_status = << >>
    /\ dp_batches = << >>
    /\ dp_fell_back = FALSE

NoEntry == [duration |-> -1, size |-> -1, mtime |-> -1, cached_at |-> -1]
NoFile == [exists |-> FALSE, size |-> 0, mtime |-> 0, dur |-> 0]
NoCall == [op |-> "none", value |-> 0, probed |-> FALSE, had_stored |-> FALSE]

CacheIdle ==
    /\ fs_stat = NoFile
    /\ cache_info = NoEntry
    /\ clock = 0
    /\ stored = NoEntry
    /\ fc_last = NoCall

SplitterIdle ==
    /\ sp_pc = "absent"
    /\ total_duration = 0
    /\ target_chunk_duration = 0
    /\ silence_starts = << >>
    /\ cut_points = << >>
    /\ last_start = 0
    /\ chunk_log = << >>
    /\ sp_result = "none"

\* detect has not returned anything yet
NoDetection ==
    [has_loop |-> FALSE, loop_type |-> "", confidence |-> [n |-> 0, d |-> 1],
     pattern |-> << >>, word_diversity |-> [n |-> 0, d |-> 1]]

DetectIdle ==
    /\ dt_pc = "absent"
    /\ dt_text = << >>
    /\ dt_duration = 0
    /\ dt_result = NoDetection

SegmentIdle ==
    /\ sg_pc = "absent"
    /\ sg_file = [extracted |-> FALSE, total_duration |-> 0,
                  silence_starts |-> << >>, exists |-> FALSE]
    /\ sg_target = 0
    /\ sg_mode = "none"
    /\ sg_plan = << >>
    /\ sg_cuts = << >>
    /\ chunk_files = << >>
    /\ sg_on_disk = {}
    /\ sg_returned = << >>
    /\ sg_probe = "none"

NoSettings ==
    [model_size |-> "none", device |-> "none", compute_type |-> "none",
     use_batch_processing |-> TRUE]

EngineIdle ==
    /\ eg_pc = "absent"
    /\ eg_settings = NoSettings
    /\ cpu_threads = 0
    /\ eg_units = 0
    /\ eg_hw = [memory_gb |-> 0, physical_cores |-> 0]
    /\ eg_pipeline = TRUE
    /\ eg_tries = << >>
    /\ eg_path = "none"

PlanIdle ==
    /\ bs_pc = "absent"
    /\ bs_hw = [memory_gb |-> 0, physical_cores |-> 0]
    /\ bs_files = 0
    /\ bs_size = -1
    /\ total_batches = 0
    /\ bs_batches = << >>

ExtIdle == DetectIdle /\ SegmentIdle /\ EngineIdle /\ PlanIdle

AuxIdle == SplitterIdle /\ DispatchIdle /\ CacheIdle /\ ExtIdle

Detect(text, D) == memo[<<text, D>>].detect
Validate(text, D) == memo[<<text, D>>].score
IsAcceptable(text, D) == memo[<<text, D>>].acceptable

RecoveryAttempt(strategy, success, result_text, error) ==
    [strategy |-> strategy, success |-> success,
     result_text |-> result_text, error |-> error]

\* best_result = None
NoAttempt == RecoveryAttempt("none", FALSE, << >>, "")

RecoveryResult(success, text, strategy, attempts, quality, error, issue) ==
    [success |-> success, text |-> text, strategy_used |-> strategy,
     attempts_made |-> attempts, quality_score |-> quality,
     error_message |-> error, original_issue |-> issue]

\* no call has returned yet
NoResult == RecoveryResult(FALSE, << >>, "none", 0, RZero, "", "")

\* _execute_strategy: the i-th strategy on file f, with what the engine and
\* ffmpeg do given by inp
execute_strategy(i, f, tools, inp, D) ==
    LET r == strategy_func(i, f, tools, inp)
    IN  IF r.raised
        THEN RecoveryAttempt(strategies[i], FALSE, << >>, "exception")
        ELSE IF r.value # << >> /\ Len(Strip(r.value)) > 0
        THEN IF ~Detect(r.value, D).has_loop
             THEN RecoveryAttempt(strategies[i], TRUE, r.value, "")
             ELSE RecoveryAttempt(strategies[i], FALSE, r.value,
                                  "Loop still detected in result")
        ELSE RecoveryAttempt(strategies[i], FALSE, << >>,
                             "Empty transcription result")

\* a faulty variant of improves_best: the comparison is reversed
improves_best_reversed(attempt, best_q, D) ==
    attempt.success /\ RLt(Validate(attempt.result_text, D), best_q)

\* `if quality_score > best_quality` of a successful attempt
improves_best(attempt, best_q, D) ==
    attempt.success /\ RLt(best_q, Validate(attempt.result_text, D))

\* a faulty variant of stops_ladder: the loop never breaks
stops_ladder_never(attempt, D) == FALSE

\* the `break` of the strategy loop
stops_ladder(attempt, D) ==
    attempt.success /\ IsAcceptable(attempt.result_text, D)

\* a faulty variant of after_attempt: an exception inside a strategy leaves
\* recover_transcription instead of being recorded and passed over
after_attempt_unguarded(attempt, i, D) ==
    IF attempt.error = "exception" THEN "raised"
    ELSE IF stops_ladder(attempt, D) \/ i = Len(strategies) THEN "final"
    ELSE "strategy"

\* where control goes after the i-th attempt: out of the loop on `break` or
\* when the strategies are exhausted, otherwise to the next strategy
after_attempt(attempt, i, D) ==
    IF stops_ladder(attempt, D) \/ i = Len(strategies) THEN "final"
    ELSE "strategy"

\* _update_strategy_stats
update_strategy_stats(st, strategy, success) ==
    [st EXCEPT !.strategy_success_rate[strategy] =
        [attempts |-> @.attempts + 1,
         successes |-> @.successes + (IF success THEN 1 ELSE 0)]]

\* count_problem without the `else` branch: a problem type that is not a key
\* of loop_types_encountered is not counted
count_problem_known_only(st, detection_result) ==
    LET ptype == IF detection_result.has_loop
                 THEN detection_result.loop_type ELSE "quality_issue"
        conf == detection_result.confidence
        band == IF RLe(Rat(8, 10), conf) THEN "high"
                ELSE IF RLe(Rat(3, 10), conf) THEN "medium" ELSE "low"
    IN  [st EXCEPT !.total_recoveries = @ + 1,
                   !.loop_types_encountered =
                       IF ptype \in {"pattern_phrase_loop", "low_diversity"}
                       THEN [@ EXCEPT ![ptype] = @ + 1] ELSE @,
                   !.confidence_distribution[band] = @ + 1]

\* the statistics updates at the head of recover_transcription
count_problem(st, detection_result) ==
    LET ptype == IF detection_result.has_loop
                 THEN detection_result.loop_type ELSE "quality_issue"
        key == IF ptype \in {"pattern_phrase_loop", "low_diversity"}
               THEN ptype ELSE "other"
        conf == detection_result.confidence
        band == IF RLe(Rat(8, 10), conf) THEN "high"
                ELSE IF RLe(Rat(3, 10), conf) THEN "medium" ELSE "low"
    IN  [st EXCEPT !.total_recoveries = @ + 1,
                   !.loop_types_encountered[key] = @ + 1,
                   !.confidence_distribution[band] = @ + 1]

\* self.stats after CoreRecoveryManager.__init__
InitialStats ==
    [total_recoveries |-> 0,
     successful_recoveries |-> 0,
     strategy_success_rate |->
        [s \in {strategies[i] : i \in 1..Len(strategies)} |->
            [attempts |-> 0, successes |-> 0]],
     loop_types_encountered |->
        [pattern_phrase_loop |-> 0, low_diversity |-> 0, other |-> 0],
     confidence_distribution |-> [high |-> 0, medium |-> 0, low |-> 0]]

\* the RecoveryResult built after the loop, or the exception that
\* _generate_emergency_text lets through
final_result(best, best_q, log, ptype, f, tools, D) ==
    IF best # NoAttempt
    THEN [raised |-> FALSE,
          value |-> RecoveryResult(TRUE, best.result_text, best.strategy,
                                   Len(log), best_q, "", ptype)]
    ELSE LET text == generate_emergency_text(f, tools, D)
         IN  IF text.raised THEN [raised |-> TRUE, value |-> NoResult]
             ELSE [raised |-> FALSE,
                   value |-> RecoveryResult(FALSE, text.value,
                                EMERGENCY_FALLBACK, Len(log), RZero,
                                "All recovery strategies failed", ptype)]

\* the engine calls one strategy run makes, and how many of them return
NoEngineUse == [calls |-> 0, returned |-> 0, delegated |-> 0]

engine_use(i, f, tools, inp) ==
    LET whole == [calls |-> 1,
                  returned |-> IF inp.engine.raised THEN 0 ELSE 1,
                  delegated |-> 0]
        none == NoEngineUse
        duration == get_audio_duration(f, tools)
        chunks == SelectSeq(inp.chunks, LAMBDA c : c.cut)
        failing == {k \in 1..Len(chunks) : chunks[k].raised}
        first == CHOOSE k \in failing : \A j \in failing : k <= j
    IN  CASE i \in {1, 3} -> whole
          [] i = 2 ->
               IF duration.raised THEN none
               ELSE IF duration.value <= TargetChunkDuration
                    THEN [whole EXCEPT !.delegated = 1]
               ELSE IF failing = {}
                    THEN [calls |-> Len(chunks), returned |-> Len(chunks),
                          delegated |-> 0]
                    ELSE [calls |-> first, returned |-> first - 1,
                          delegated |-> 0]
          [] OTHER -> none

(***************************************************************************)
(* recover_transcription as one call, for the callers that wait for it     *)
(*                                                                         *)
(* An engine profile says how the engine behaves during one recovery: what *)
(* it answers on the whole file, on each sub-chunk, and as the tiny model. *)
(***************************************************************************)
\* the engine raises on every call
AlwaysRaises ==
    [whole |-> RaisedText, chunk |-> ChunkRaised, tiny |-> RaisedText]
\* the engine keeps looping whatever it is given
KeepsLooping ==
    [whole |-> ReturnedText(TxtLoop), chunk |-> ChunkText(TxtLoopFrag),
     tiny |-> ReturnedText(TxtLoop)]
\* the engine transcribes properly when asked again
RetryFixes ==
    [whole |-> ReturnedText(TxtGood), chunk |-> ChunkText(TxtShort),
     tiny |-> ReturnedText(TxtGood)]
\* the engine gives short answers that score below the threshold, and
\* ffmpeg cuts no sub-chunk
WeakAnswers ==
    [whole |-> ReturnedText(TxtPoor), chunk |-> CutFailed,
     tiny |-> ReturnedText(TxtWeak)]

EngineProfiles == {AlwaysRaises, KeepsLooping, RetryFixes, WeakAnswers}

\* what the i-th strategy meets on file f under profile p
ProfileInput(p, i, f, tools) ==
    LET duration == get_audio_duration(f, tools)
    IN  [engine |-> IF i = 3 THEN p.tiny ELSE p.whole,
         chunks |-> IF i = 2 /\ ~duration.raised
                        /\ duration.value > TargetChunkDuration
                    THEN [k \in 1..chunk_count(duration.value) |-> p.chunk]
                    ELSE << >>]

\* lines 167-176: recovery_log, best_result, best_quality and self.stats
\* (held in acc) after an attempt
record_attempt(acc, attempt, D) ==
    LET better == improves_best(attempt, acc.best_quality, D)
    IN  [log |-> Append(acc.log, attempt),
         best_result |-> IF better THEN attempt ELSE acc.best_result,
         best_quality |-> IF better THEN Validate(attempt.result_text, D)
                          ELSE acc.best_quality,
         stats |-> update_strategy_stats(acc.stats, attempt.strategy,
                                         attempt.success)]

\* lines 148-183: the strategy loop from the i-th strategy on
RECURSIVE strategy_loop(_, _, _, _, _, _)
RECURSIVE strategy_loop_after(_, _, _, _, _, _, _)
strategy_loop_after(i, f, tools, D, p, acc, attempt) ==
    IF after_attempt(attempt, i, D) = "strategy"
    THEN strategy_loop(i + 1, f, tools, D, p, record_attempt(acc, attempt, D))
    ELSE record_attempt(acc, attempt, D)

strategy_loop(i, f, tools, D, p, acc) ==
    strategy_loop_after(i, f, tools, D, p, acc,
        execute_strategy(i, f, tools, ProfileInput(p, i, f, tools), D))

\* lines 185-213: what the call hands back once the loop has left acc
recovery_outcome(f, tools, D, ptype, acc) ==
    LET r == final_result(acc.best_result, acc.best_quality, acc.log, ptype,
                          f, tools, D)
    IN  [raised |-> r.raised, value |-> r.value, log |-> acc.log,
         stats |-> IF acc.best_result # NoAttempt
                   THEN [acc.stats EXCEPT !.successful_recoveries = @ + 1]
                   ELSE acc.stats]

\* recover_transcription(audio_path, problematic_text, settings, duration)
\* on a manager whose statistics are st
recover_transcription(f, tools, text, D, p, st) ==
    recovery_outcome(f, tools, D,
        IF Detect(text, D).has_loop THEN Detect(text, D).loop_type
        ELSE "quality_issue",
        strategy_loop(1, f, tools, D, p,
            [log |-> << >>, best_result |-> NoAttempt, best_quality |-> RZero,
             stats |-> count_problem(st, Detect(text, D))]))

(***************************************************************************)
(* core/transcription.py and core/batch_transcription.py: the input units, *)
(* the temporary-file patterns, the hardware, the probes                   *)
(***************************************************************************)
\* ".wav"
DotWav == <<46, 119, 97, 118>>
\* "a_silence_chunk_00": the head of a chunk's name, before its number
ChunkStem ==
    <<97, 95, 115, 105, 108, 101, 110, 99, 101, 95, 99, 104, 117, 110, 107, 95, 48, 48>>
\* "r": the head of a whole recording's name
RecordingStem == <<114>>

\* cleanup_patterns: "*<mid>*.wav", each given by its middle part
cleanup_patterns ==
    << <<95, 99, 104, 117, 110, 107, 95>>,
       <<95, 102, 102, 109, 112, 101, 103, 95, 99, 104, 117, 110, 107, 95>>,
       <<95, 115, 105, 108, 101, 110, 99, 101, 95, 99, 104, 117, 110, 107, 95>>,
       <<95, 97, 99, 99, 101, 108, 101, 114, 97, 116, 101, 100>>,
       <<95, 112, 114, 111, 99, 101, 115, 115, 101, 100>>,
       <<95, 101, 120, 116, 114, 97, 99, 116, 101, 100>> >>

\* glob: the base name matches "*<mid>*.wav"
matches_pattern(name, mid) ==
    /\ Len(name) >= Len(mid) + Len(DotWav)
    /\ SubSeq(name, Len(name) - Len(DotWav) + 1, Len(name)) = DotWav
    /\ \E k \in 1..(Len(name) - Len(DotWav) - Len(mid) + 1) :
          SubSeq(name, k, k + Len(mid) - 1) = mid

\* the file is one _cleanup_chunks_and_temp_files removes
is_temp_file(f) ==
    \E k \in 1..Len(cleanup_patterns) : matches_pattern(f.name, cleanup_patterns[k])

\* the i-th unit of a run over chunks (30 s each) or over whole short
\* recordings (8 s each)
UnitFile(kind, i) ==
    IF kind = "chunk"
    THEN AudioFile(ChunkStem \o <<Digit(i)>> \o DotWav, TRUE, TRUE, 300, 200)
    ELSE AudioFile(RecordingStem \o <<Digit(i)>> \o DotWav, TRUE, TRUE, 80, 40)

UnitKinds == {"chunk", "recording"}

\* how many units a run has at most
MaxFiles == 2

\* the lists _get_files_to_transcribe can return: sorted, without repeats
FileLists ==
    {[i \in 1..n |-> UnitFile(kind, i)] : kind \in UnitKinds, n \in 0..MaxFiles}

\* self.batch_threshold as the application's settings give it
batch_threshold == 2
\* self.max_workers = min(4, len(audio_files))
MaxPoolWorkers == 4
\* transcriptions[:10] of the report's transcript section
ReportLimit == 10

Min(a, b) == IF a <= b THEN a ELSE b

\* get_hardware_info(): memory in GB and physical cores
Hardware(memory_gb, physical_cores) ==
    [memory_gb |-> memory_gb, physical_cores |-> physical_cores]
\* psutil has not been asked yet
HardwareUnread == Hardware(0, 0)
HardwareProfiles ==
    {Hardware(4, 2), Hardware(8, 1), Hardware(8, 4), Hardware(16, 1),
     Hardware(32, 8)}

\* _check_batch_support
check_batch_support(h) == h.memory_gb >= 8

\* the tiers of _determine_optimal_batch_size, without the cap of line 120
batch_size_uncapped(h, n) ==
    IF h.memory_gb >= 32 THEN Min(16, h.physical_cores * 2)
    ELSE IF h.memory_gb >= 16 THEN Min(8, h.physical_cores)
    ELSE IF h.memory_gb >= 8 THEN Min(4, h.physical_cores \div 2)
    ELSE 2

\* _determine_optimal_batch_size with auto_batch_size on
determine_optimal_batch_size(h, n) ==
    LET optimal_batch ==
            IF h.memory_gb >= 32 THEN Min(16, h.physical_cores * 2)
            ELSE IF h.memory_gb >= 16 THEN Min(8, h.physical_cores)
            ELSE IF h.memory_gb >= 8 THEN Min(4, h.physical_cores \div 2)
            ELSE 2
    IN  Min(optimal_batch, n)

\* should_use_batch, for n prepared units on hardware h
should_use_batch(n, h) == n >= batch_threshold /\ check_batch_support(h)

\* _get_audio_duration_ffmpeg: 0.0 for a missing file, the cached duration,
\* or ffprobe's answer; 0.0 when ffprobe is missing or fails
get_audio_duration_ffmpeg(f, cached, tools) ==
    IF ~f.exists THEN 0
    ELSE IF cached THEN f.dur
    ELSE IF tools /\ f.readable THEN f.dur
    ELSE 0

\* the probe stores a duration it has just measured
probe_caches(f, cached, tools) == f.exists /\ ~cached /\ tools /\ f.readable

\* the segments the engine yields for one unit: none, a proper transcript in
\* two segments, or one looping segment
SegsNone == << >>
SegsGood == <<SubSeq(TxtGood, 1, 16), SubSeq(TxtGood, 17, Len(TxtGood))>>
SegsLoop == <<TxtLoop>>
UnitSegments == {SegsNone, SegsGood, SegsLoop}
\* model.transcribe on a unit: an exception, or segments
UnitOutcomes == {RaisedText} \cup {ReturnedText(segs) : segs \in UnitSegments}

\* _apply_anti_loop_recovery when the detector flags the text, lines 911-963:
\* r is what recover_transcription did
recovered_text(text, r) ==
    [raised |-> r.raised,
     text |-> IF ~r.raised /\ r.value.success THEN r.value.text ELSE text,
     stats |-> r.stats, gated |-> TRUE, flagged |-> TRUE, handed |-> TRUE,
     recovery |-> IF r.raised THEN "raised"
                  ELSE IF r.value.success THEN "success" ELSE "failure",
     log |-> r.log,
     signals |-> IF r.raised THEN <<"loop_detected", "recovery_started">>
                 ELSE <<"loop_detected", "recovery_started",
                        "recovery_completed">>]

\* _apply_anti_loop_recovery(transcription_text, audio_path, audio_duration):
\* the text it returns (or the exception recover_transcription lets through),
\* the manager's statistics afterwards, and what it did on the way
apply_anti_loop_recovery(text, f, tools, D, p, st) ==
    IF text = << >> \/ Strip(text) = << >> \/ ~Detect(text, D).has_loop
    THEN [raised |-> FALSE, text |-> text, stats |-> st,
          gated |-> text # << >> /\ Strip(text) # << >>,
          flagged |-> FALSE, handed |-> FALSE,
          recovery |-> "none", log |-> << >>, signals |-> << >>]
    ELSE recovered_text(text, recover_transcription(f, tools, text, D, p, st))

\* one mutating call on the FileCache and the thread that made it: "run"
\* for TranscriptionThread.run, "stop" for the caller of stop()
CacheCall(op, thread) == [op |-> op, thread |-> thread]

\* one emitted signal: its name, the unit it is about (0 for the run), and
\* for transcription_finished whether the payload is a report
Event(sig, unit, ok) == [sig |-> sig, unit |-> unit, ok |-> ok]

\* the history entry of a unit no engine call has been made for
NoTrace ==
    [engine |-> "none", text |-> << >>, duration |-> 0, gated |-> FALSE,
     flagged |-> FALSE, handed |-> FALSE, recovery |-> "none", log |-> << >>,
     kept |-> << >>]

\* the threads as constructed for the run over files, standing at pc
ThreadState(files, pc) ==
    /\ audio_files = files
    /\ on_disk = 1..Len(files)
    /\ file_cache = {}
    /\ hw = HardwareUnread
    /\ is_running = TRUE
    /\ batch_is_running = FALSE
    /\ th_pc = pc
    /\ idx = 0
    /\ unit_state = [u \in 1..Len(files) |-> "idle"]
    /\ full_transcription = << >>
    /\ results = << >>
    /\ final_report = << >>
    /\ events = << >>
    /\ trace = [u \in 1..Len(files) |-> NoTrace]
    /\ late_starts = {}
    /\ cache_calls = {}

\* the manager is not in a call
ManagerIdle ==
    /\ rm_pc = "idle"
    /\ rm_args = [f |-> FileShort, tools |-> TRUE, text |-> TxtLoop, D |-> 0]
    /\ recovery_log = << >>
    /\ best_result = NoAttempt
    /\ best_quality = RZero
    /\ problem_type = ""
    /\ rm_result = NoResult
    /\ stats = InitialStats
    /\ engine_trace = NoEngineUse

(***************************************************************************)
(* CoreRecoveryManager.recover_transcription, one step per loop iteration  *)
(***************************************************************************)
\* how many calls to recover_transcription one manager receives
MaxRecoveries == 1

\* lines 120-145: the call is entered, the problem is analysed and counted
RecoverBegin(f, tools, text, D) ==
    LET detection_result == Detect(text, D)
    IN  /\ rm_args' = [f |-> f, tools |-> tools, text |-> text, D |-> D]
        /\ recovery_log' = << >>
        /\ best_result' = NoAttempt
        /\ best_quality' = RZero
        /\ problem_type' = IF detection_result.has_loop
                           THEN detection_result.loop_type
                           ELSE "quality_issue"
        /\ stats' = count_problem(stats, detection_result)
        /\ engine_trace' = NoEngineUse
        /\ rm_result' = NoResult
        /\ rm_pc' = "strategy"
        /\ UNCHANGED <<auxVars, memo, tools_installed, thVars>>

\* lines 148-183: one iteration of the strategy loop
ExecuteStrategy ==
    /\ rm_pc = "strategy"
    /\ LET i == Len(recovery_log) + 1
           f == rm_args.f
           tools == rm_args.tools
           D == rm_args.D
       IN  \E inp \in StrategyInputs(i, f, tools) :
             LET attempt == execute_strategy(i, f, tools, inp, D)
                 use == engine_use(i, f, tools, inp)
                 better == improves_best(attempt, best_quality, D)
             IN  /\ recovery_log' = Append(recovery_log, attempt)
                 /\ stats' = update_strategy_stats(stats, attempt.strategy,
                                                   attempt.success)
                 /\ best_quality' =
                        IF better THEN Validate(attempt.result_text, D)
                        ELSE best_quality
                 /\ best_result' = IF better THEN attempt ELSE best_result
                 /\ engine_trace' =
                        [calls |-> engine_trace.calls + use.calls,
                         returned |-> engine_trace.returned + use.returned,
                         delegated |-> engine_trace.delegated + use.delegated]
                 /\ rm_pc' = after_attempt(attempt, i, D)
    /\ UNCHANGED <<auxVars, memo, tools_installed, thVars, rm_args, problem_type,
                   rm_result>>

\* lines 185-213: the result is built and returned
RecoverFinish ==
    /\ rm_pc = "final"
    /\ LET r == final_result(best_result, best_quality, recovery_log,
                             problem_type, rm_args.f, rm_args.tools,
                             rm_args.D)
       IN  /\ rm_pc' = IF r.raised THEN "raised" ELSE "returned"
           /\ rm_result' = r.value
           /\ stats' = IF best_result # NoAttempt
                       THEN [stats EXCEPT !.successful_recoveries = @ + 1]
                       ELSE stats
    /\ UNCHANGED <<auxVars, memo, tools_installed, thVars, rm_args, recovery_log,
                   best_result, best_quality, problem_type, engine_trace>>

\* The caller (_apply_anti_loop_recovery) hands a transcript the detector
\* flagged under the duration it passes along, to a manager that is not in
\* a call.
Recover ==
    /\ rm_pc \in {"idle", "returned", "raised"}
    /\ stats.total_recoveries < MaxRecoveries
    /\ \E f \in Files, text \in ProblemTexts :
         \E D \in {0, f.dur} :
            /\ Detect(text, D).has_loop
            /\ RecoverBegin(f, tools_installed, text, D)

InitRecovery ==
    /\ memo = Analysis
    /\ tools_installed \in BOOLEAN
    /\ ManagerIdle
    /\ ThreadState(<< >>, "absent")
    /\ AuxIdle

vars == <<memo, tools_installed, rmVars, thVars, auxVars>>

NextRecovery == Recover \/ ExecuteStrategy \/ RecoverFinish

SpecRecovery == InitRecovery /\ [][NextRecovery]_vars

(***************************************************************************)
(* TranscriptionThread.run, the sequential path, and stop()                *)
(***************************************************************************)
\* the manager's variables a caller of recover_transcription leaves alone
rmLocals == <<rm_pc, rm_args, recovery_log, best_result, best_quality,
              problem_type, rm_result, engine_trace>>

\* the units whose file _cleanup_chunks_and_temp_files removes
TempUnits == {u \in 1..Len(audio_files) : is_temp_file(audio_files[u])}

\* unit u as the file system shows it now
UnitOnDisk(u) == [audio_files[u] EXCEPT !.exists = u \in on_disk]

\* _save_individual_transcription in core/transcription.py: a blank text is
\* skipped; otherwise the file is written and the logging call that follows
\* raises NameError (the module defines no `logger`), inside the try and
\* again inside its except clause, so the exception leaves the method
save_individual_transcription(text) ==
    IF Strip(text) = << >> THEN "skipped" ELSE "raised"

\* _cleanup_chunks_and_temp_files in core/transcription.py: having removed
\* some files it reports the count through the undefined `logger`
cleanup_raises(removed) == removed # {}

\* an engine call on unit u begins
BeginCall(u) ==
    /\ unit_state' = [unit_state EXCEPT
                         ![u] = IF u \in on_disk THEN "running" ELSE "nofile"]
    /\ late_starts' = IF is_running THEN late_starts ELSE late_starts \cup {u}

\* lines 546-703: the engine is constructed (or all three configurations
\* fail), the prepared units are counted, the path is chosen
RunBegin ==
    /\ th_pc = "created"
    /\ LET n == Len(audio_files)
       IN  \E loaded \in BOOLEAN :
           \E h \in IF loaded /\ n >= batch_threshold
                    THEN HardwareProfiles ELSE {hw} :
              /\ hw' = h
              /\ th_pc' = IF ~loaded THEN "failed"
                          ELSE IF n = 0 THEN "done"
                          ELSE IF should_use_batch(n, h) THEN "batch_created"
                          ELSE "seq_loop"
              /\ batch_is_running' = (loaded /\ should_use_batch(n, h))
              /\ events' = IF ~loaded \/ n = 0
                           THEN Append(events,
                                    Event("transcription_finished", 0, FALSE))
                           ELSE events
              /\ cache_calls' =
                    IF loaded
                    THEN cache_calls \cup
                             {CacheCall("clear_stale_entries", "run")}
                    ELSE cache_calls
    /\ UNCHANGED <<auxVars, memo, tools_installed, rmVars, audio_files, on_disk,
                   file_cache, is_running, idx, unit_state,
                   full_transcription, results, final_report, trace,
                   late_starts>>

\* lines 705-728: the flag is polled at the head of an iteration; the loop
\* is left, or the engine is called on the next unit
SeqStart ==
    /\ th_pc = "seq_loop"
    /\ IF ~is_running
       THEN /\ th_pc' = "seq_report"
            /\ events' = Append(events, Event("cancelled", 0, TRUE))
            /\ UNCHANGED <<unit_state, late_starts>>
       ELSE /\ th_pc' = "seq_engine"
            /\ BeginCall(idx + 1)
            /\ UNCHANGED events
    /\ UNCHANGED <<auxVars, memo, tools_installed, rmVars, audio_files, on_disk,
                   file_cache, hw, is_running, batch_is_running, idx,
                   full_transcription, results, final_report, trace>>
    /\ UNCHANGED cache_calls

\* lines 730-759 and 812-821: the engine returned text for unit u; a is what
\* _apply_anti_loop_recovery did with it. The text it returned is written to
\* the unit's transcript file, and appended if the save step returns.
SeqKeep(u, text, D, a) ==
    /\ trace' = [trace EXCEPT ![u] =
          [engine |-> "returned", text |-> text, duration |-> D,
           gated |-> a.gated,
           flagged |-> a.flagged, handed |-> a.handed,
           recovery |-> a.recovery, log |-> a.log,
           kept |-> IF a.raised THEN << >> ELSE a.text]]
    /\ stats' = a.stats
    /\ IF a.raised \/ save_individual_transcription(a.text) = "raised"
       THEN /\ th_pc' = "failed"
            /\ events' = events
                  \o [k \in 1..Len(a.signals) |-> Event(a.signals[k], u, TRUE)]
                  \o <<Event("transcription_finished", 0, FALSE)>>
            /\ UNCHANGED <<full_transcription, idx>>
       ELSE /\ full_transcription' =
                  Append(full_transcription, [unit |-> u, text |-> a.text])
            /\ events' = events
                  \o [k \in 1..Len(a.signals) |-> Event(a.signals[k], u, TRUE)]
                  \o <<Event("update_transcription", u, TRUE)>>
            /\ idx' = u
            /\ th_pc' = IF u = Len(audio_files) THEN "seq_report"
                        ELSE "seq_loop"

\* lines 728-759 and 812-821: the engine call ends; its text is probed,
\* checked, recovered, saved and appended, or an exception ends the run
SeqFinish ==
    /\ th_pc = "seq_engine"
    /\ LET u == idx + 1
           f == UnitOnDisk(u)
           cached == u \in file_cache
           D == get_audio_duration_ffmpeg(f, cached, tools_installed)
       IN  \E o \in UnitOutcomes, p \in EngineProfiles :
             /\ unit_state[u] = "nofile" => o.raised
             /\ ~f.exists => p = AlwaysRaises
             /\ unit_state' = [unit_state EXCEPT ![u] = "done"]
             /\ IF o.raised
                THEN /\ trace' = [trace EXCEPT ![u].engine = "raised"]
                     /\ th_pc' = "failed"
                     /\ events' = Append(events,
                                     Event("transcription_finished", 0, FALSE))
                     /\ UNCHANGED <<stats, file_cache, full_transcription,
                                    idx, cache_calls>>
                ELSE /\ file_cache' =
                           IF probe_caches(f, cached, tools_installed)
                           THEN file_cache \cup {u} ELSE file_cache
                     /\ cache_calls' =
                           IF probe_caches(f, cached, tools_installed)
                           THEN cache_calls \cup
                                    {CacheCall("set_duration", "run")}
                           ELSE cache_calls
                     /\ SeqKeep(u, Concat(o.value), D,
                            apply_anti_loop_recovery(Concat(o.value), f,
                                tools_installed, D, p, stats))
    /\ UNCHANGED <<auxVars, memo, tools_installed, rmLocals, audio_files, on_disk, hw,
                   is_running, batch_is_running, results, final_report,
                   late_starts>>

\* lines 760-821: the report is assembled; its speed line divides by the
\* total processing time, which is 0 when no unit was transcribed; then the
\* temporary files are removed
SeqReport ==
    /\ th_pc = "seq_report"
    /\ IF full_transcription = << >>
       THEN /\ th_pc' = "failed"
            /\ events' = Append(events,
                            Event("transcription_finished", 0, FALSE))
            /\ UNCHANGED <<final_report, on_disk>>
       ELSE /\ on_disk' = on_disk \ TempUnits
            /\ IF cleanup_raises(on_disk \cap TempUnits)
               THEN /\ th_pc' = "failed"
                    /\ events' = Append(events,
                                    Event("transcription_finished", 0, FALSE))
                    /\ UNCHANGED final_report
               ELSE /\ th_pc' = "done"
                    /\ final_report' = full_transcription
                    /\ events' = Append(events,
                                    Event("transcription_finished", 0, TRUE))
    /\ UNCHANGED <<auxVars, memo, tools_installed, rmVars, audio_files, file_cache, hw,
                   is_running, batch_is_running, idx, unit_state,
                   full_transcription, results, trace, late_starts>>
    /\ UNCHANGED cache_calls

\* TranscriptionThread.stop(), called from the interface thread while the
\* run is under way: the flag is cleared, the temporary files are removed,
\* and unless that raised the stale cache entries are dropped
Stop ==
    /\ is_running
    /\ th_pc \notin {"absent", "done", "failed"}
    /\ is_running' = FALSE
    /\ on_disk' = on_disk \ TempUnits
    /\ file_cache' = IF cleanup_raises(on_disk \cap TempUnits) THEN file_cache
                      ELSE file_cache \cap on_disk'
    /\ UNCHANGED <<auxVars, memo, tools_installed, rmVars, audio_files, hw,
                   batch_is_running, th_pc, idx, unit_state,
                   full_transcription, results, final_report, events, trace,
                   late_starts>>
    /\ cache_calls' = IF cleanup_raises(on_disk \cap TempUnits) THEN cache_calls
                      ELSE cache_calls \cup
                               {CacheCall("clear_stale_entries", "stop")}

(***************************************************************************)
(* BatchTranscriptionThread.run, which TranscriptionThread.run calls       *)
(***************************************************************************)
\* one entry of the batch thread's result list
Result(unit, success, text) == [unit |-> unit, success |-> success, text |-> text]

\* what _process_file_with_batched_pipeline and the body of
\* _process_files_sequential make of the engine's outcome on unit u
batch_result(u, o) ==
    IF o.raised THEN Result(u, FALSE, << >>)
    ELSE Result(u, TRUE, JoinSp(o.value))

\* the history entry both leave: the text is kept as the engine gave it
batch_trace(o) ==
    IF o.raised THEN [NoTrace EXCEPT !.engine = "raised"]
    ELSE [NoTrace EXCEPT !.engine = "returned", !.text = JoinSp(o.value),
                         !.kept = JoinSp(o.value)]

\* the transcripts of the final report: the successful results in list
\* order, the first ten at most, those with content
report_transcriptions(rs) ==
    LET successful == SelectSeq(rs, LAMBDA r : r.success)
        shown == SubSeq(successful, 1, Min(Len(successful), ReportLimit))
        filled == SelectSeq(shown, LAMBDA r : Strip(r.text) # << >>)
    IN  [k \in 1..Len(filled) |->
            [unit |-> filled[k].unit, text |-> Strip(filled[k].text)]]

\* batch_size of _process_files_in_batches
BatchSize == determine_optimal_batch_size(hw, Len(audio_files))

\* the units of the batch under way
CurrentBatch == (idx + 1)..Min(idx + BatchSize, Len(audio_files))

\* max_workers of the batch's ThreadPoolExecutor
PoolSize ==
    Min(Min(MaxPoolWorkers, Len(audio_files)), Cardinality(CurrentBatch))

\* run() up to the first batch: the engine is constructed (or both
\* configurations fail), then the pipeline; a pipeline that cannot be built
\* and a batch size of 0 both lead to _process_files_sequential
BatchBegin ==
    /\ th_pc = "batch_created"
    /\ \E model_ok \in BOOLEAN, pipeline_ok \in BOOLEAN :
          /\ ~model_ok => ~pipeline_ok
          /\ th_pc' = IF ~model_ok THEN "batch_failed"
                      ELSE IF Len(audio_files) > 1 /\ pipeline_ok
                               /\ BatchSize > 0
                      THEN "batch_loop"
                      ELSE "bseq_loop"
    /\ UNCHANGED <<auxVars, memo, tools_installed, rmVars, audio_files, on_disk,
                   file_cache, hw, is_running, batch_is_running, idx,
                   unit_state, full_transcription, results, final_report,
                   events, trace, late_starts>>
    /\ UNCHANGED cache_calls

\* lines 207-227: the batch thread's flag is polled, then the whole batch
\* is submitted to a fresh pool
BatchNext ==
    /\ th_pc = "batch_loop"
    /\ IF ~batch_is_running
       THEN /\ th_pc' = "batch_report"
            /\ UNCHANGED unit_state
       ELSE /\ th_pc' = "batch_wait"
            /\ unit_state' = [u \in 1..Len(audio_files) |->
                                 IF u \in CurrentBatch THEN "queued"
                                 ELSE unit_state[u]]
    /\ UNCHANGED <<auxVars, memo, tools_installed, rmVars, audio_files, on_disk,
                   file_cache, hw, is_running, batch_is_running, idx,
                   full_transcription, results, final_report, events, trace,
                   late_starts>>
    /\ UNCHANGED cache_calls

\* a pool worker takes the oldest submitted unit and calls the engine
WorkerStart(u) ==
    /\ th_pc = "batch_wait"
    /\ u \in CurrentBatch
    /\ unit_state[u] = "queued"
    /\ \A v \in CurrentBatch : unit_state[v] = "queued" => u <= v
    /\ Cardinality({v \in CurrentBatch :
                       unit_state[v] \in {"running", "nofile"}}) < PoolSize
    /\ BeginCall(u)
    /\ UNCHANGED <<auxVars, memo, tools_installed, rmVars, audio_files, on_disk,
                   file_cache, hw, is_running, batch_is_running, th_pc, idx,
                   full_transcription, results, final_report, events, trace>>
    /\ UNCHANGED cache_calls

\* lines 140-193 and 229-245: a worker's call ends and as_completed hands
\* its result to the list
WorkerFinish(u) ==
    /\ th_pc = "batch_wait"
    /\ u \in CurrentBatch
    /\ unit_state[u] \in {"running", "nofile"}
    /\ \E o \in UnitOutcomes :
          /\ unit_state[u] = "nofile" => o.raised
          /\ results' = Append(results, batch_result(u, o))
          /\ trace' = [trace EXCEPT ![u] = batch_trace(o)]
          /\ events' = IF o.raised THEN events
                       ELSE Append(events,
                                Event("update_transcription", u, TRUE))
    /\ unit_state' = [unit_state EXCEPT ![u] = "done"]
    /\ UNCHANGED <<auxVars, memo, tools_installed, rmVars, audio_files, on_disk,
                   file_cache, hw, is_running, batch_is_running, th_pc, idx,
                   full_transcription, final_report, late_starts>>
    /\ UNCHANGED cache_calls

\* every future of the batch has completed: the pool is shut down and the
\* loop moves on
BatchJoin ==
    /\ th_pc = "batch_wait"
    /\ \A u \in CurrentBatch : unit_state[u] = "done"
    /\ idx' = Min(idx + BatchSize, Len(audio_files))
    /\ th_pc' = IF idx' = Len(audio_files) THEN "batch_report"
                ELSE "batch_loop"
    /\ UNCHANGED <<auxVars, memo, tools_installed, rmVars, audio_files, on_disk,
                   file_cache, hw, is_running, batch_is_running, unit_state,
                   full_transcription, results, final_report, events, trace,
                   late_starts>>
    /\ UNCHANGED cache_calls

\* _process_files_sequential, lines 263-275: the flag is polled, then the
\* engine is called on the next unit
BSeqStart ==
    /\ th_pc = "bseq_loop"
    /\ IF ~batch_is_running
       THEN /\ th_pc' = "batch_report"
            /\ UNCHANGED <<unit_state, late_starts>>
       ELSE /\ th_pc' = "bseq_engine"
            /\ BeginCall(idx + 1)
    /\ UNCHANGED <<auxVars, memo, tools_installed, rmVars, audio_files, on_disk,
                   file_cache, hw, is_running, batch_is_running, idx,
                   full_transcription, results, final_report, events, trace>>
    /\ UNCHANGED cache_calls

\* _process_files_sequential, lines 267-320: the call ends, in a result or
\* in an exception the loop records
BSeqFinish ==
    /\ th_pc = "bseq_engine"
    /\ LET u == idx + 1
       IN  /\ \E o \in UnitOutcomes :
                /\ unit_state[u] = "nofile" => o.raised
                /\ results' = Append(results, batch_result(u, o))
                /\ trace' = [trace EXCEPT ![u] = batch_trace(o)]
                /\ events' = IF o.raised THEN events
                             ELSE Append(events,
                                      Event("update_transcription", u, TRUE))
           /\ unit_state' = [unit_state EXCEPT ![u] = "done"]
           /\ idx' = u
           /\ th_pc' = IF u = Len(audio_files) THEN "batch_report"
                       ELSE "bseq_loop"
    /\ UNCHANGED <<auxVars, memo, tools_installed, rmVars, audio_files, on_disk,
                   file_cache, hw, is_running, batch_is_running,
                   full_transcription, final_report, late_starts>>
    /\ UNCHANGED cache_calls

\* run(), lines 350-389: the report is generated from the result list, the
\* temporary files are removed, the signals are emitted
BatchReport ==
    /\ th_pc = "batch_report"
    /\ th_pc' = "done"
    /\ final_report' = report_transcriptions(results)
    /\ on_disk' = on_disk \ TempUnits
    /\ events' = events \o <<Event("transcription_finished", 0, TRUE)>>
                    \o (IF results # << >>
                        THEN <<Event("completion_data_ready", 0, TRUE)>>
                        ELSE << >>)
    /\ UNCHANGED <<auxVars, memo, tools_installed, rmVars, audio_files, file_cache, hw,
                   is_running, batch_is_running, idx, unit_state,
                   full_transcription, results, trace, late_starts>>
    /\ UNCHANGED cache_calls

Init ==
    /\ memo = Analysis
    /\ tools_installed \in BOOLEAN
    /\ ManagerIdle
    /\ \E files \in FileLists : ThreadState(files, "created")
    /\ AuxIdle

Next ==
    \/ RunBegin
    \/ SeqStart
    \/ SeqFinish
    \/ SeqReport
    \/ Stop
    \/ BatchBegin
    \/ BatchNext
    \/ \E u \in 1..Len(audio_files) : WorkerStart(u)
    \/ \E u \in 1..Len(audio_files) : WorkerFinish(u)
    \/ BatchJoin
    \/ BSeqStart
    \/ BSeqFinish
    \/ BatchReport

Spec == Init /\ [][Next]_vars

(***************************************************************************)
(* _split_audio_with_ffmpeg_silence: the plan of cut points and the        *)
(* extraction of the chunks                                                *)
(***************************************************************************)
MaxDuration == 6
MaxTarget == 3
MaxSilences == 2
MaxSilenceTime == 8

\* silencedetect reports the silences of a file in chronological order
SilenceLists ==
    {s \in UNION {[1..n -> 0..MaxSilenceTime] : n \in 0..MaxSilences} :
        \A i \in 1..Len(s), j \in 1..Len(s) : i < j => s[i] < s[j]}

SplitInput(total, target, silences) ==
    [total_duration |-> total, target_chunk_duration |-> target,
     silence_starts |-> silences]

\* a file of 125 s, the default target of 60 s and a last silence reported
\* past the probed duration
LongFileInput == SplitInput(125, 60, <<58, 119, 200>>)

SplitInputs ==
    {SplitInput(d, t, s) : d \in 0..MaxDuration, t \in 1..MaxTarget,
                           s \in SilenceLists}
        \cup {LongFileInput}

\* the for loop over silence_starts: the first start past the target, or
\* the sentinel -1
best_cut(silences, next_target) ==
    LET later == {i \in 1..Len(silences) : silences[i] > next_target}
    IN  IF later = {} THEN -1
        ELSE silences[CHOOSE i \in later : \A j \in later : i <= j]

\* the while loop with the silence sought after current_pos instead of
\* after next_target
RECURSIVE cut_points_loop_from_pos(_, _, _, _, _)
cut_points_loop_from_pos(current_pos, total, target, silences, cuts) ==
    IF ~(current_pos < total) THEN cuts
    ELSE IF current_pos + target >= total THEN Append(cuts, total)
    ELSE IF best_cut(silences, current_pos) # -1
         THEN cut_points_loop_from_pos(best_cut(silences, current_pos),
                  total, target, silences,
                  Append(cuts, best_cut(silences, current_pos)))
         ELSE cut_points_loop_from_pos(current_pos + target, total, target,
                  silences, Append(cuts, current_pos + target))

\* the while loop that fills cut_points
RECURSIVE cut_points_loop(_, _, _, _, _)
cut_points_loop(current_pos, total, target, silences, cuts) ==
    IF ~(current_pos < total) THEN cuts
    ELSE IF current_pos + target >= total THEN Append(cuts, total)
    ELSE IF best_cut(silences, current_pos + target) # -1
         THEN cut_points_loop(best_cut(silences, current_pos + target),
                              total, target, silences,
                              Append(cuts, best_cut(silences,
                                                    current_pos + target)))
         ELSE cut_points_loop(current_pos + target, total, target, silences,
                              Append(cuts, current_pos + target))

next_start_on_success(ok, end_time, start) ==
    IF ok THEN end_time ELSE start

\* last_start after the cut command of a chunk has run, ok or not
next_start(ok, end_time, start) == end_time

\* silence detection, parsing, the duration probe and the plan
SplitPlan ==
    /\ sp_pc = "called"
    /\ \E detected \in IF tools_installed THEN {"parsed", "file_missing"}
                       ELSE {"no_ffmpeg"},
          probed \in BOOLEAN :
          IF detected # "parsed"
          THEN /\ sp_pc' = "returned"
               /\ sp_result' = "empty"
               /\ UNCHANGED cut_points
          ELSE IF silence_starts = << >>
          THEN /\ sp_pc' = "returned"
               /\ sp_result' = "time_split"
               /\ UNCHANGED cut_points
          ELSE IF ~probed
          THEN /\ sp_pc' = "returned"
               /\ sp_result' = "whole_file"
               /\ UNCHANGED cut_points
          ELSE /\ sp_pc' = "cutting"
               /\ cut_points' = cut_points_loop(0, total_duration,
                                    target_chunk_duration, silence_starts,
                                    << >>)
               /\ UNCHANGED sp_result
    /\ UNCHANGED <<total_duration, target_chunk_duration, silence_starts,
                   last_start, chunk_log>>
    /\ UNCHANGED <<memo, tools_installed, rmVars, thVars, dpVars, fcVars,
                   extVars>>

\* one turn of the loop that cuts the chunks
CreateChunk ==
    /\ sp_pc = "cutting"
    /\ Len(chunk_log) < Len(cut_points)
    /\ \E ok \in BOOLEAN :
          /\ chunk_log' = Append(chunk_log,
                 [start |-> last_start,
                  end |-> cut_points[Len(chunk_log) + 1], ok |-> ok])
          /\ last_start' = next_start(ok, cut_points[Len(chunk_log) + 1],
                                      last_start)
    /\ UNCHANGED <<sp_pc, total_duration, target_chunk_duration,
                   silence_starts, cut_points, sp_result>>
    /\ UNCHANGED <<memo, tools_installed, rmVars, thVars, dpVars, fcVars,
                   extVars>>

SplitReturn ==
    /\ sp_pc = "cutting"
    /\ Len(chunk_log) = Len(cut_points)
    /\ sp_pc' = "returned"
    /\ sp_result' = "chunks"
    /\ UNCHANGED <<total_duration, target_chunk_duration, silence_starts,
                   cut_points, last_start, chunk_log>>
    /\ UNCHANGED <<memo, tools_installed, rmVars, thVars, dpVars, fcVars,
                   extVars>>

InitSplit ==
    /\ memo = << >>
    /\ tools_installed \in BOOLEAN
    /\ ManagerIdle
    /\ ThreadState(<< >>, "absent")
    /\ DispatchIdle
    /\ CacheIdle
    /\ ExtIdle
    /\ \E inp \in SplitInputs :
          /\ total_duration = inp.total_duration
          /\ target_chunk_duration = inp.target_chunk_duration
          /\ silence_starts = inp.silence_starts
    /\ sp_pc = "called"
    /\ cut_points = << >>
    /\ last_start = 0
    /\ chunk_log = << >>
    /\ sp_result = "none"

NextSplit == SplitPlan \/ CreateChunk \/ SplitReturn

SpecSplit == InitSplit /\ [][NextSplit]_vars

(***************************************************************************)
(* BatchTranscriptionThread._process_files_in_batches, called directly:    *)
(* batch size, batches, the pool of workers, the fallback                  *)
(***************************************************************************)
MaxDispatchFiles == 5
DefaultBatchSize == 8
\* batch_size settings tried when auto_batch_size is off
ManualBatchSizes == {1, 3, DefaultBatchSize}

\* _determine_optimal_batch_size: a manual batch_size is returned as it is
determine_batch_size(auto, manual, h, n) ==
    IF ~auto THEN manual ELSE determine_optimal_batch_size(h, n)

dispatch_pool_of_batch(n, b) == b

\* max_workers of the pool of a batch of b files, on a thread of n files
dispatch_pool_size(n, b) == Min(Min(MaxPoolWorkers, n), b)

\* progress of lines 236 and 301: done / total * 100
progress_percent(done, total) == Rat(done * 100, total)

StatusEvent(text, file, progress) ==
    [text |-> text, file |-> file, progress |-> progress]

\* the files of the batch that starts at dp_i
DispatchBatch == (dp_i + 1)..Min(dp_i + dp_batch_size, dp_files)

\* line 248-251: the exception is logged and the whole list is handed to
\* _process_files_sequential, whose result list replaces the one built
FallBack ==
    /\ dp_pc' = "seq_loop"
    /\ dp_i' = 0
    /\ dp_results' = << >>
    /\ dp_state' = [u \in 1..dp_files |-> "idle"]
    /\ dp_fell_back' = TRUE

\* lines 199-205: the pipeline is built and the batch size computed; a
\* pipeline that cannot be built and a batch size of 0 (the division of
\* line 204) raise into the except branch; a single file goes to
\* _process_files_sequential at once
DispatchBegin ==
    /\ dp_pc = "created"
    /\ IF dp_files > 1
       THEN \E pipeline_ok \in BOOLEAN :
               IF ~pipeline_ok
               THEN FallBack /\ UNCHANGED dp_batch_size
               ELSE /\ dp_batch_size' =
                          determine_batch_size(auto_batch_size, batch_size,
                                               dp_hw, dp_files)
                    /\ IF dp_batch_size' = 0
                       THEN FallBack
                       ELSE /\ dp_pc' = "batch_loop"
                            /\ UNCHANGED <<dp_i, dp_results, dp_state,
                                           dp_fell_back>>
       ELSE /\ dp_pc' = "seq_loop"
            /\ UNCHANGED <<dp_batch_size, dp_i, dp_results, dp_state,
                           dp_fell_back>>
    /\ UNCHANGED <<dp_files, auto_batch_size, batch_size, dp_hw, dp_status,
                   dp_batches>>
    /\ UNCHANGED <<memo, tools_installed, rmVars, thVars, spVars, fcVars,
                   extVars>>

\* lines 207-227: the next batch is sliced off and submitted to a fresh
\* pool; a pool that cannot start its threads raises into the except branch
DispatchNext ==
    /\ dp_pc = "batch_loop"
    /\ \E pool_ok \in BOOLEAN :
          IF pool_ok
          THEN /\ dp_pc' = "batch_wait"
               /\ dp_state' = [u \in 1..dp_files |->
                                  IF u \in DispatchBatch THEN "queued"
                                  ELSE dp_state[u]]
               /\ dp_batches' = Append(dp_batches,
                      [first |-> dp_i + 1,
                       last |-> Min(dp_i + dp_batch_size, dp_files),
                       pool |-> dispatch_pool_size(dp_files,
                                    Cardinality(DispatchBatch))])
               /\ UNCHANGED <<dp_i, dp_results, dp_fell_back>>
          ELSE FallBack /\ UNCHANGED dp_batches
    /\ UNCHANGED <<dp_files, auto_batch_size, batch_size, dp_hw,
                   dp_batch_size, dp_status>>
    /\ UNCHANGED <<memo, tools_installed, rmVars, thVars, spVars, fcVars,
                   extVars>>

\* a free worker of the pool takes the oldest submitted file
PoolStart(u) ==
    /\ dp_pc = "batch_wait"
    /\ u \in DispatchBatch
    /\ dp_state[u] = "queued"
    /\ \A v \in DispatchBatch : dp_state[v] = "queued" => u <= v
    /\ Cardinality({v \in DispatchBatch : dp_state[v] = "running"})
          < dp_batches[Len(dp_batches)].pool
    /\ dp_state' = [dp_state EXCEPT ![u] = "running"]
    /\ UNCHANGED <<dp_pc, dp_files, auto_batch_size, batch_size, dp_hw,
                   dp_batch_size, dp_i, dp_results, dp_status, dp_batches,
                   dp_fell_back>>
    /\ UNCHANGED <<memo, tools_installed, rmVars, thVars, spVars, fcVars,
                   extVars>>

\* lines 140-193 and 229-240: a worker's call ends, well or not, and
\* as_completed hands its result to the list
PoolFinish(u) ==
    /\ dp_pc = "batch_wait"
    /\ u \in DispatchBatch
    /\ dp_state[u] = "running"
    /\ \E ok \in BOOLEAN :
          dp_results' = Append(dp_results,
                               [file_path |-> u, success |-> ok])
    /\ dp_status' = Append(dp_status,
                           StatusEvent("batch_file", u,
                               progress_percent(Len(dp_results) + 1,
                                                dp_files)))
    /\ dp_state' = [dp_state EXCEPT ![u] = "done"]
    /\ UNCHANGED <<dp_pc, dp_files, auto_batch_size, batch_size, dp_hw,
                   dp_batch_size, dp_i, dp_batches, dp_fell_back>>
    /\ UNCHANGED <<memo, tools_installed, rmVars, thVars, spVars, fcVars,
                   extVars>>

\* the with block of line 223 ends once every future has completed
DispatchJoin ==
    /\ dp_pc = "batch_wait"
    /\ \A u \in DispatchBatch : dp_state[u] = "done"
    /\ dp_i' = dp_i + dp_batch_size
    /\ dp_pc' = IF dp_i' >= dp_files THEN "returned" ELSE "batch_loop"
    /\ UNCHANGED <<dp_files, auto_batch_size, batch_size, dp_hw,
                   dp_batch_size, dp_state, dp_results, dp_status,
                   dp_batches, dp_fell_back>>
    /\ UNCHANGED <<memo, tools_installed, rmVars, thVars, spVars, fcVars,
                   extVars>>

\* one turn of the loop of _process_files_sequential: the status of line
\* 303 is emitted for a file that went well
SequentialFile ==
    /\ dp_pc = "seq_loop"
    /\ \E ok \in BOOLEAN :
          /\ dp_results' = Append(dp_results,
                                  [file_path |-> dp_i + 1, success |-> ok])
          /\ dp_status' = IF ok
                          THEN Append(dp_status,
                                   StatusEvent("sequential_file", dp_i + 1,
                                       progress_percent(dp_i + 1, dp_files)))
                          ELSE dp_status
    /\ dp_state' = [dp_state EXCEPT ![dp_i + 1] = "done"]
    /\ dp_i' = dp_i + 1
    /\ dp_pc' = IF dp_i' = dp_files THEN "returned" ELSE "seq_loop"
    /\ UNCHANGED <<dp_files, auto_batch_size, batch_size, dp_hw,
                   dp_batch_size, dp_batches, dp_fell_back>>
    /\ UNCHANGED <<memo, tools_installed, rmVars, thVars, spVars, fcVars,
                   extVars>>

InitDispatch ==
    /\ memo = << >>
    /\ tools_installed = TRUE
    /\ ManagerIdle
    /\ ThreadState(<< >>, "absent")
    /\ SplitterIdle
    /\ CacheIdle
    /\ ExtIdle
    /\ dp_pc = "created"
    /\ dp_files \in 1..MaxDispatchFiles
    /\ \/ /\ auto_batch_size = TRUE
          /\ batch_size = DefaultBatchSize
          /\ dp_hw \in HardwareProfiles
       \/ /\ auto_batch_size = FALSE
          /\ batch_size \in ManualBatchSizes
          /\ dp_hw = HardwareUnread
    /\ dp_batch_size = -1
    /\ dp_i = 0
    /\ dp_state = [u \in 1..dp_files |-> "idle"]
    /\ dp_results = << >>
    /\ dp_status = << >>
    /\ dp_batches = << >>
    /\ dp_fell_back = FALSE

NextDispatch ==
    \/ DispatchBegin
    \/ DispatchNext
    \/ \E u \in 1..dp_files : PoolStart(u)
    \/ \E u \in 1..dp_files : PoolFinish(u)
    \/ DispatchJoin
    \/ SequentialFile

SpecDispatch == InitDispatch /\ [][NextDispatch]_vars

(***************************************************************************)
(* FileCache and the duration probe of the orchestrator that uses it       *)
(***************************************************************************)
MaxSize == 2
MaxMtime == 3
MaxProbeDuration == 2
ClockStep == 12
MaxClock == 36
\* abs(cache_info.mtime - file_stat.st_mtime) < 1.0, in half seconds
MtimeTolerance == 2
max_age_hours == 24
\* get_duration's None
NoneDuration == -1

Abs(x) == IF x < 0 THEN 0 - x ELSE x

FileStat(size, mtime, dur) ==
    [exists |-> TRUE, size |-> size, mtime |-> mtime, dur |-> dur]

FileStats ==
    {FileStat(s, t, d) : s \in 1..MaxSize, t \in 0..MaxMtime,
                         d \in 1..MaxProbeDuration}

AudioFileInfo(duration, size, mtime, cached_at) ==
    [duration |-> duration, size |-> size, mtime |-> mtime,
     cached_at |-> cached_at]

Call(op, value, probed, had_stored) ==
    [op |-> op, value |-> value, probed |-> probed,
     had_stored |-> had_stored]

\* something other than a call of the cache happened
Elsewhere == Call("elsewhere", 0, FALSE, FALSE)

\* FileCache.get_duration
get_duration(info, st) ==
    IF ~st.exists THEN NoneDuration
    ELSE IF /\ info # NoEntry
            /\ info.size = st.size
            /\ Abs(info.mtime - st.mtime) < MtimeTolerance
    THEN info.duration
    ELSE NoneDuration

\* FileCache.set_duration: the entry it leaves
set_duration(info, st, duration, now) ==
    IF ~st.exists THEN info
    ELSE AudioFileInfo(duration, st.size, st.mtime, now)

\* FileCache.clear_stale_entries: the entry it leaves
clear_stale_entries(info, st, now) ==
    IF info # NoEntry /\ (~st.exists \/ now - info.cached_at > max_age_hours)
    THEN NoEntry
    ELSE info

\* _get_audio_duration_ffmpeg: 0.0 for a missing file, the cached duration
\* if the cache has one, else ffprobe's answer, which is cached, or 0.0
\* when ffprobe fails
QueryDuration ==
    /\ IF ~fs_stat.exists
       THEN /\ fc_last' = Call("query", 0, FALSE, stored # NoEntry)
            /\ UNCHANGED <<cache_info, stored>>
       ELSE IF get_duration(cache_info, fs_stat) # NoneDuration
       THEN /\ fc_last' = Call("query", get_duration(cache_info, fs_stat),
                               FALSE, stored # NoEntry)
            /\ UNCHANGED <<cache_info, stored>>
       ELSE \E probe_ok \in BOOLEAN :
               IF probe_ok
               THEN /\ cache_info' = set_duration(cache_info, fs_stat,
                                                  fs_stat.dur, clock)
                    /\ stored' = cache_info'
                    /\ fc_last' = Call("query", fs_stat.dur, TRUE,
                                       stored # NoEntry)
               ELSE /\ fc_last' = Call("query", 0, TRUE, stored # NoEntry)
                    /\ UNCHANGED <<cache_info, stored>>
    /\ UNCHANGED <<fs_stat, clock>>
    /\ UNCHANGED <<memo, tools_installed, rmVars, thVars, spVars, dpVars,
                   extVars>>

\* _get_files_to_transcribe, line 496 (and stop(), line 1011): the cache
\* is pruned
PruneCache ==
    /\ cache_info' = clear_stale_entries(cache_info, fs_stat, clock)
    /\ fc_last' = Call("prune", 0, FALSE, stored # NoEntry)
    /\ UNCHANGED <<fs_stat, clock, stored>>
    /\ UNCHANGED <<memo, tools_installed, rmVars, thVars, spVars, dpVars,
                   extVars>>

\* the file is written again: its size or its mtime changes
WriteFile ==
    /\ fs_stat.exists
    /\ \E st \in FileStats :
          /\ st.size # fs_stat.size \/ st.mtime # fs_stat.mtime
          /\ fs_stat' = st
    /\ stored' = NoEntry
    /\ fc_last' = Elsewhere
    /\ UNCHANGED <<cache_info, clock>>
    /\ UNCHANGED <<memo, tools_installed, rmVars, thVars, spVars, dpVars,
                   extVars>>

RemoveFile ==
    /\ fs_stat.exists
    /\ fs_stat' = NoFile
    /\ stored' = NoEntry
    /\ fc_last' = Elsewhere
    /\ UNCHANGED <<cache_info, clock>>
    /\ UNCHANGED <<memo, tools_installed, rmVars, thVars, spVars, dpVars,
                   extVars>>

CreateFile ==
    /\ ~fs_stat.exists
    /\ fs_stat' \in FileStats
    /\ fc_last' = Elsewhere
    /\ UNCHANGED <<cache_info, clock, stored>>
    /\ UNCHANGED <<memo, tools_installed, rmVars, thVars, spVars, dpVars,
                   extVars>>

\* time passes
Tick ==
    /\ clock + ClockStep <= MaxClock
    /\ clock' = clock + ClockStep
    /\ fc_last' = Elsewhere
    /\ UNCHANGED <<fs_stat, cache_info, stored>>
    /\ UNCHANGED <<memo, tools_installed, rmVars, thVars, spVars, dpVars,
                   extVars>>

InitCache ==
    /\ memo = << >>
    /\ tools_installed = TRUE
    /\ ManagerIdle
    /\ ThreadState(<< >>, "absent")
    /\ SplitterIdle
    /\ DispatchIdle
    /\ ExtIdle
    /\ fs_stat \in FileStats \cup {NoFile}
    /\ cache_info = NoEntry
    /\ clock = 0
    /\ stored = NoEntry
    /\ fc_last = NoCall

NextCache ==
    QueryDuration \/ PruneCache \/ WriteFile \/ RemoveFile \/ CreateFile
        \/ Tick

SpecCache == InitCache /\ [][NextCache]_vars

(***************************************************************************)
(* LightweightLoopDetector.detect, called on its own: phrase loops and     *)
(* transcripts of distinct words, with and without an audio duration       *)
(***************************************************************************)
\* "a"
WordA == <<97>>
\* "é"
WordE == <<233>>
\* "eu"
WordEu == <<101, 117>>
\* "vi"
WordVi == <<118, 105>>
\* "que"
WordQue == <<113, 117, 101>>
\* "Sim"
WordSim == <<83, 105, 109>>
\* "disse-me"
WordDisseMe == <<100, 105, 115, 115, 101, 45, 109, 101>>
\* "d'água"
WordAgua == <<100, 39, 225, 103, 117, 97>>
\* the words a looping phrase is made of: one letter, two letters, longer,
\* capitalised, with a hyphen, with an apostrophe
PhraseWords ==
    {WordA, WordE, WordEu, WordVi, WordQue, WordSim, WordDisseMe, WordAgua}
\* "hoje vamos falar sobre o projeto novo da equipe de vendas"
TxtTeam ==
    <<104, 111, 106, 101, 32, 118, 97, 109, 111, 115, 32, 102, 97, 108, 97,
      114, 32, 115, 111, 98, 114, 101, 32, 111, 32, 112, 114, 111, 106,
      101, 116, 111, 32, 110, 111, 118, 111, 32, 100, 97, 32, 101, 113,
      117, 105, 112, 101, 32, 100, 101, 32, 118, 101, 110, 100, 97, 115>>
\* "ha hahaha disse ele rindo muito ontem na festa"
TxtLaugh ==
    <<104, 97, 32, 104, 97, 104, 97, 104, 97, 32, 100, 105, 115, 115, 101,
      32, 101, 108, 101, 32, 114, 105, 110, 100, 111, 32, 109, 117, 105,
      116, 111, 32, 111, 110, 116, 101, 109, 32, 110, 97, 32, 102, 101,
      115, 116, 97>>
\* "A reunião começa amanhã cedo, depois do café."
TxtMeeting ==
    <<65, 32, 114, 101, 117, 110, 105, 227, 111, 32, 99, 111, 109, 101,
      231, 97, 32, 97, 109, 97, 110, 104, 227, 32, 99, 101, 100, 111, 44,
      32, 100, 101, 112, 111, 105, 115, 32, 100, 111, 32, 99, 97, 102, 233,
      46>>

\* how many times the phrase is said
PhraseRepeats == 5

\* w1 w2 w1 w2 ... : the phrase n times, single spaces between the words
phrase_text(w1, w2, n) ==
    JoinSp([k \in 1..(2 * n) |-> IF k % 2 = 1 THEN w1 ELSE w2])

PhraseTexts ==
    {phrase_text(w1, w2, PhraseRepeats) : w1 \in PhraseWords, w2 \in PhraseWords}

\* transcripts without a loop
PlainTexts == {TxtGood, TxtTeam, TxtLaugh, TxtMeeting}

\* "hoje"
WordHoje == <<104, 111, 106, 101>>
\* "vamos"
WordVamos == <<118, 97, 109, 111, 115>>
\* "falar"
WordFalar == <<102, 97, 108, 97, 114>>
\* "projeto"
WordProjeto == <<112, 114, 111, 106, 101, 116, 111>>
\* phrases of one, two and three distinct words
CountPhrases ==
    {<<WordProjeto>>, <<WordHoje, WordVamos>>, <<WordHoje, WordVamos, WordFalar>>}

\* the largest number of times a phrase of CountPhrases is said
MaxCount == 7

\* the phrase said n times, single spaces between the words
repeat_text(phrase, n) ==
    JoinSp([k \in 1..(Len(phrase) * n) |-> phrase[((k - 1) % Len(phrase)) + 1]])

CountTexts == {repeat_text(p, n) : p \in CountPhrases, n \in 1..MaxCount}

\* "a a a a a a a a a": a word loop in fewer than min_text_length characters
TxtShortLoop == repeat_text(<<WordA>>, 9)
\* "eu vi vi eu eu vi vi eu eu vi": two words, ten times, no phrase four times
TxtMixed ==
    JoinSp(<<WordEu, WordVi, WordVi, WordEu, WordEu, WordVi, WordVi, WordEu,
             WordEu, WordVi>>)

OrderTexts == {TxtShortLoop, TxtMixed}

\* audio_duration in tenths of a second: none, 1 s, 6 s, 30 s, 60 s
DetectDurations == {0, 10, 60, 300, 600}

\* the call returns
RunDetect ==
    /\ dt_pc = "called"
    /\ dt_pc' = "returned"
    /\ dt_result' = detect(dt_text, dt_duration)
    /\ UNCHANGED <<dt_text, dt_duration>>
    /\ UNCHANGED <<memo, tools_installed, rmVars, thVars, spVars, dpVars,
                   fcVars, sgVars, egVars, bsVars>>

InitDetect ==
    /\ memo = << >>
    /\ tools_installed = TRUE
    /\ ManagerIdle
    /\ ThreadState(<< >>, "absent")
    /\ SplitterIdle
    /\ DispatchIdle
    /\ CacheIdle
    /\ SegmentIdle
    /\ EngineIdle
    /\ PlanIdle
    /\ dt_pc = "called"
    /\ dt_text \in PhraseTexts \cup PlainTexts \cup CountTexts \cup OrderTexts
    /\ dt_duration \in DetectDurations
    /\ dt_result = NoDetection

NextDetect == RunDetect

SpecDetect == InitDetect /\ [][NextDetect]_vars

(***************************************************************************)
(* _get_files_to_transcribe, step 3: _split_audio_with_ffmpeg_silence,     *)
(* _split_audio_with_ffmpeg and the removal of an extracted file           *)
(***************************************************************************)
PreparedFile(extracted, total, silences) ==
    [extracted |-> extracted, total_duration |-> total,
     silence_starts |-> silences, exists |-> TRUE]

Chunk(start, end) == [start |-> start, end |-> end]

\* the chunks of the silence splitter: from each cut point to the next
silence_chunks(cuts) ==
    [k \in 1..Len(cuts) |-> Chunk(IF k = 1 THEN 0 ELSE cuts[k - 1], cuts[k])]

\* num_chunks of _split_audio_with_ffmpeg
num_chunks(total, chunk_duration) ==
    LET n == (total \div chunk_duration)
                + (IF total % chunk_duration > 0 THEN 1 ELSE 0)
    IN  IF n = 0 /\ total > 0 THEN 1 ELSE n

\* the chunks of _split_audio_with_ffmpeg: -ss start_time, -t
\* min(chunk_duration, total_duration - start_time)
time_chunks(total, chunk_duration) ==
    [i \in 1..num_chunks(total, chunk_duration) |->
        Chunk((i - 1) * chunk_duration,
              (i - 1) * chunk_duration
                  + Min(chunk_duration, total - (i - 1) * chunk_duration))]

\* the splitter returns what
SplitterReturns(list) ==
    /\ sg_pc' = "split"
    /\ sg_returned' = list

\* lines 195-293 and 96-127: silence detection, its parsing, the duration
\* probe of the splitter that is chosen, and the plan
SegmentPlan ==
    /\ sg_pc = "called"
    /\ \E detected \in IF tools_installed THEN {"parsed", "file_missing"}
                       ELSE {"no_ffmpeg"},
          probed \in BOOLEAN :
          /\ ~tools_installed => ~probed
          /\ IF detected # "parsed"
             THEN /\ SplitterReturns(<< >>)
                  /\ UNCHANGED <<sg_mode, sg_plan, sg_probe>>
             ELSE /\ sg_mode' = IF sg_file.silence_starts = << >> THEN "time"
                                ELSE "silence"
                  /\ sg_probe' = IF probed THEN "ok" ELSE "failed"
                  /\ IF ~probed
                     THEN /\ SplitterReturns(
                                 IF sg_mode' = "silence" THEN <<"original">>
                                 ELSE << >>)
                          /\ UNCHANGED sg_plan
                     ELSE /\ sg_pc' = "cutting"
                          /\ sg_plan' =
                                IF sg_mode' = "silence"
                                THEN silence_chunks(cut_points_loop(0,
                                         sg_file.total_duration, sg_target,
                                         sg_file.silence_starts, << >>))
                                ELSE time_chunks(sg_file.total_duration,
                                                 sg_target)
                          /\ UNCHANGED sg_returned
    /\ UNCHANGED <<sg_file, sg_target, sg_cuts, chunk_files, sg_on_disk>>
    /\ UNCHANGED <<memo, tools_installed, rmVars, thVars, spVars, dpVars,
                   fcVars, dtVars, egVars, bsVars>>

\* lines 297-335: one turn of the silence splitter's loop; a failed cut is
\* reported and the loop goes on
CutSilenceChunk ==
    /\ sg_pc = "cutting"
    /\ sg_mode = "silence"
    /\ Len(sg_cuts) < Len(sg_plan)
    /\ \E ok \in BOOLEAN :
          /\ sg_cuts' = Append(sg_cuts, ok)
          /\ chunk_files' = IF ok THEN Append(chunk_files, Len(sg_cuts) + 1)
                            ELSE chunk_files
          /\ sg_on_disk' = IF ok THEN sg_on_disk \cup {Len(sg_cuts) + 1}
                           ELSE sg_on_disk
    /\ UNCHANGED <<sg_pc, sg_file, sg_target, sg_mode, sg_plan, sg_returned,
                   sg_probe>>
    /\ UNCHANGED <<memo, tools_installed, rmVars, thVars, spVars, dpVars,
                   fcVars, dtVars, egVars, bsVars>>

\* lines 129-175: one turn of the time splitter's loop; a failed cut removes
\* the chunks created so far and ends the call with an empty list
CutTimeChunk ==
    /\ sg_pc = "cutting"
    /\ sg_mode = "time"
    /\ Len(sg_cuts) < Len(sg_plan)
    /\ \E ok \in BOOLEAN :
          /\ sg_cuts' = Append(sg_cuts, ok)
          /\ IF ok
             THEN /\ chunk_files' = Append(chunk_files, Len(sg_cuts) + 1)
                  /\ sg_on_disk' = sg_on_disk \cup {Len(sg_cuts) + 1}
                  /\ UNCHANGED <<sg_pc, sg_returned>>
             ELSE /\ sg_on_disk' =
                        sg_on_disk \ {chunk_files[k] : k \in 1..Len(chunk_files)}
                  /\ SplitterReturns(<< >>)
                  /\ UNCHANGED chunk_files
    /\ UNCHANGED <<sg_file, sg_target, sg_mode, sg_plan, sg_probe>>
    /\ UNCHANGED <<memo, tools_installed, rmVars, thVars, spVars, dpVars,
                   fcVars, dtVars, egVars, bsVars>>

\* lines 185 and 337: the loop is over, chunk_files is returned
SplitterDone ==
    /\ sg_pc = "cutting"
    /\ Len(sg_cuts) = Len(sg_plan)
    /\ SplitterReturns(chunk_files)
    /\ UNCHANGED <<sg_file, sg_target, sg_mode, sg_plan, sg_cuts, chunk_files,
                   sg_on_disk, sg_probe>>
    /\ UNCHANGED <<memo, tools_installed, rmVars, thVars, spVars, dpVars,
                   fcVars, dtVars, egVars, bsVars>>

\* lines 528-537: the list is taken over, and a file extracted from a video
\* is removed
RemoveExtracted ==
    /\ sg_pc = "split"
    /\ sg_pc' = "prepared"
    /\ sg_file' = [sg_file EXCEPT !.exists = sg_file.exists /\ ~sg_file.extracted]
    /\ UNCHANGED <<sg_target, sg_mode, sg_plan, sg_cuts, chunk_files,
                   sg_on_disk, sg_returned, sg_probe>>
    /\ UNCHANGED <<memo, tools_installed, rmVars, thVars, spVars, dpVars,
                   fcVars, dtVars, egVars, bsVars>>

InitSegment ==
    /\ memo = << >>
    /\ tools_installed \in BOOLEAN
    /\ ManagerIdle
    /\ ThreadState(<< >>, "absent")
    /\ SplitterIdle
    /\ DispatchIdle
    /\ CacheIdle
    /\ DetectIdle
    /\ EngineIdle
    /\ PlanIdle
    /\ sg_pc = "called"
    /\ \E inp \in SplitInputs, extracted \in BOOLEAN :
          /\ sg_file = PreparedFile(extracted, inp.total_duration,
                                    inp.silence_starts)
          /\ sg_target = inp.target_chunk_duration
    /\ sg_mode = "none"
    /\ sg_plan = << >>
    /\ sg_cuts = << >>
    /\ chunk_files = << >>
    /\ sg_on_disk = {}
    /\ sg_returned = << >>
    /\ sg_probe = "none"

NextSegment ==
    \/ SegmentPlan
    \/ CutSilenceChunk
    \/ CutTimeChunk
    \/ SplitterDone
    \/ RemoveExtracted

SpecSegment == InitSegment /\ [][NextSegment]_vars

(***************************************************************************)
(* The construction of the engine and the choice of the path:              *)
(* TranscriptionThread.run, lines 551-680, and                             *)
(* BatchTranscriptionThread._create_optimized_model                        *)
(***************************************************************************)
EngineConfig(model, device, compute_type, threads) ==
    [model |-> model, device |-> device, compute_type |-> compute_type,
     cpu_threads |-> threads]

\* no cpu_threads argument is passed
DefaultThreads == 0
ConservativeThreads == 4

\* dict.get / dict.pop with a default, on a settings record
SettingOr(value, default) == IF value = "none" THEN default ELSE value

\* the configurations run() constructs the engine with, in order
run_configs(settings, threads) ==
    LET model_size == SettingOr(settings.model_size, "medium")
    IN  <<EngineConfig(model_size, SettingOr(settings.device, "cpu"),
                       SettingOr(settings.compute_type, "int8"), threads),
          EngineConfig(model_size, "cpu", "int8",
                       Min(ConservativeThreads, threads)),
          EngineConfig("base", "cpu", "int8", DefaultThreads)>>

\* the configurations _create_optimized_model constructs the engine with;
\* threads is thread_config["cpu_threads"], the physical cores
batch_configs(settings, threads) ==
    <<EngineConfig(SettingOr(settings.model_size, "base"),
                   SettingOr(settings.device, "cpu"),
                   SettingOr(settings.compute_type, "int8"), threads),
      EngineConfig("base", "cpu", "int8", DefaultThreads)>>

Try(thread, config, ok) == [thread |-> thread, config |-> config, ok |-> ok]

TriesOf(thread) == SelectSeq(eg_tries, LAMBDA t : t.thread = thread)

\* core/transcription.py is imported: its line 18 imports
\* core/batch_transcription.py, whose line 15 imports the batched pipeline
\* from faster_whisper and raises ImportError if there is none
ImportOrchestrator ==
    /\ eg_pc = "unloaded"
    /\ eg_pc' = IF eg_pipeline THEN "created" ELSE "import_failed"
    /\ UNCHANGED <<eg_settings, cpu_threads, eg_units, eg_hw, eg_pipeline,
                   eg_tries, eg_path>>
    /\ UNCHANGED <<memo, tools_installed, rmVars, thVars, spVars, dpVars,
                   fcVars, dtVars, sgVars, bsVars>>

\* lines 551-553 and 583-622: model_size, device and compute_type are popped
\* from whisper_settings, then one WhisperModel construction is tried; the
\* third failure leaves the try block of run()
ConstructEngine ==
    /\ eg_pc = "created"
    /\ LET k == Len(TriesOf("run")) + 1
           configs == run_configs(IF k = 1 THEN eg_settings ELSE
                                      [eg_settings EXCEPT !.model_size =
                                          eg_tries[1].config.model],
                                  cpu_threads)
       IN  \E ok \in BOOLEAN :
              /\ eg_tries' = Append(eg_tries, Try("run", configs[k], ok))
              /\ eg_pc' = IF ok THEN "loaded"
                          ELSE IF k = Len(configs) THEN "failed"
                          ELSE "created"
    /\ eg_settings' = [eg_settings EXCEPT !.model_size = "none",
                                          !.device = "none",
                                          !.compute_type = "none"]
    /\ UNCHANGED <<cpu_threads, eg_units, eg_hw, eg_pipeline, eg_path>>
    /\ UNCHANGED <<memo, tools_installed, rmVars, thVars, spVars, dpVars,
                   fcVars, dtVars, sgVars, bsVars>>

\* _check_batch_support, with the pipeline importable or not
check_batch_support_of(pipeline, h) == pipeline /\ check_batch_support(h)

\* should_use_batch of run(), lines 645-650
should_use_batch_of(settings, n, pipeline, h) ==
    /\ settings.use_batch_processing
    /\ n >= batch_threshold
    /\ check_batch_support_of(pipeline, h)

\* lines 644-680: with its engine built the run goes on in its own loop, or
\* hands a copy of whisper_settings to a BatchTranscriptionThread
ChoosePath ==
    /\ eg_pc = "loaded"
    /\ LET batch == should_use_batch_of(eg_settings, eg_units, eg_pipeline,
                                        eg_hw)
       IN  /\ eg_path' = IF batch THEN "batched" ELSE "sequential"
           /\ eg_pc' = IF batch THEN "batch_created" ELSE "proceeds"
    /\ UNCHANGED <<eg_settings, cpu_threads, eg_units, eg_hw, eg_pipeline,
                   eg_tries>>
    /\ UNCHANGED <<memo, tools_installed, rmVars, thVars, spVars, dpVars,
                   fcVars, dtVars, sgVars, bsVars>>

\* _create_optimized_model, called by BatchTranscriptionThread.run: one
\* construction is tried; the second failure leaves the try block of run()
ConstructBatchEngine ==
    /\ eg_pc = "batch_created"
    /\ LET k == Len(TriesOf("batch")) + 1
           configs == batch_configs(eg_settings, eg_hw.physical_cores)
       IN  \E ok \in BOOLEAN :
              /\ eg_tries' = Append(eg_tries, Try("batch", configs[k], ok))
              /\ eg_pc' = IF ok THEN "proceeds"
                          ELSE IF k = Len(configs) THEN "failed"
                          ELSE "batch_created"
    /\ UNCHANGED <<eg_settings, cpu_threads, eg_units, eg_hw, eg_pipeline,
                   eg_path>>
    /\ UNCHANGED <<memo, tools_installed, rmVars, thVars, spVars, dpVars,
                   fcVars, dtVars, sgVars, bsVars>>

ModelSizes == {"none", "medium", "large-v3"}
Devices == {"none", "cuda"}
ComputeTypes == {"none", "float16"}
ThreadCounts == {2, 8}
MaxUnits == 3

InitEngine ==
    /\ memo = << >>
    /\ tools_installed = TRUE
    /\ ManagerIdle
    /\ ThreadState(<< >>, "absent")
    /\ SplitterIdle
    /\ DispatchIdle
    /\ CacheIdle
    /\ DetectIdle
    /\ SegmentIdle
    /\ PlanIdle
    /\ eg_pc = "unloaded"
    /\ eg_settings \in [model_size : ModelSizes, device : Devices,
                        compute_type : ComputeTypes,
                        use_batch_processing : BOOLEAN]
    /\ cpu_threads \in ThreadCounts
    /\ eg_units \in 1..MaxUnits
    /\ eg_hw \in HardwareProfiles
    /\ eg_pipeline \in BOOLEAN
    /\ eg_tries = << >>
    /\ eg_path = "none"

NextEngine ==
    \/ ImportOrchestrator
    \/ ConstructEngine
    \/ ChoosePath
    \/ ConstructBatchEngine

SpecEngine == InitEngine /\ [][NextEngine]_vars

(***************************************************************************)
(* _process_files_in_batches, lines 204-212: the automatic batch size, the *)
(* batch count and the slices                                              *)
(***************************************************************************)
MaxPlanCores == 16
MaxPlanFiles == 10
MemorySizes == {4, 8, 12, 16, 24, 32, 64}

\* lines 203-204: the batch size is computed, and the batch count, whose
\* division raises when the size is 0
SizeBatches ==
    /\ bs_pc = "called"
    /\ bs_size' = determine_optimal_batch_size(bs_hw, bs_files)
    /\ IF bs_size' = 0
       THEN /\ bs_pc' = "raised"
            /\ UNCHANGED total_batches
       ELSE /\ bs_pc' = "slicing"
            /\ total_batches' = (bs_files + bs_size' - 1) \div bs_size'
    /\ UNCHANGED <<bs_hw, bs_files, bs_batches>>
    /\ UNCHANGED <<memo, tools_installed, rmVars, thVars, spVars, dpVars,
                   fcVars, dtVars, sgVars, egVars>>

\* lines 206-211: one turn of for i in range(0, len(files), batch_size),
\* with batch = files[i:i + batch_size]
SliceBatch ==
    /\ bs_pc = "slicing"
    /\ LET i == Len(bs_batches) * bs_size
       IN  IF i >= bs_files
           THEN /\ bs_pc' = "done"
                /\ UNCHANGED bs_batches
           ELSE /\ bs_batches' = Append(bs_batches,
                       [first |-> i + 1,
                        last |-> Min(i + bs_size, bs_files)])
                /\ UNCHANGED bs_pc
    /\ UNCHANGED <<bs_hw, bs_files, bs_size, total_batches>>
    /\ UNCHANGED <<memo, tools_installed, rmVars, thVars, spVars, dpVars,
                   fcVars, dtVars, sgVars, egVars>>

InitPlan ==
    /\ memo = << >>
    /\ tools_installed = TRUE
    /\ ManagerIdle
    /\ ThreadState(<< >>, "absent")
    /\ SplitterIdle
    /\ DispatchIdle
    /\ CacheIdle
    /\ DetectIdle
    /\ SegmentIdle
    /\ EngineIdle
    /\ bs_pc = "called"
    /\ \E m \in MemorySizes, c \in 1..MaxPlanCores : bs_hw = Hardware(m, c)
    /\ bs_files \in 2..MaxPlanFiles
    /\ bs_size = -1
    /\ total_batches = 0
    /\ bs_batches = << >>

NextPlan == SizeBatches \/ SliceBatch

SpecPlan == InitPlan /\ [][NextPlan]_vars

(***************************************************************************)
(* Properties of recover_transcription (SpecRecovery)                      *)
(***************************************************************************)
\* an attempt's output is non-empty, found loop-free by the detector, and
\* scores at or above the acceptance threshold
AttemptAcceptable(a, D) ==
    /\ Strip(a.result_text) # << >>
    /\ ~Detect(a.result_text, D).has_loop
    /\ RLe(MinQualityThreshold, Validate(a.result_text, D))

\* the call in progress, or the one that just ended, saw no engine call
\* return: every call of the engine raised
EngineAlwaysFailed == engine_trace.calls > 0 /\ engine_trace.returned = 0

\* C2: within one call the j-th attempt made is that of the j-th strategy of
\* CONSERVATIVE_SETTINGS, SMALLER_CHUNKS, TINY_MODEL, EMERGENCY_FALLBACK, so
\* each strategy is attempted at most once, and no attempt follows an
\* acceptable one.
C2_LadderOrder ==
    /\ Len(recovery_log) <= Len(strategies)
    /\ \A j \in 1..Len(recovery_log) :
          /\ recovery_log[j].strategy = strategies[j]
          /\ j < Len(recovery_log)
                => ~AttemptAcceptable(recovery_log[j], rm_args.D)
    /\ (rm_pc = "strategy" /\ recovery_log # << >>)
          => ~AttemptAcceptable(recovery_log[Len(recovery_log)], rm_args.D)

\* a call that stopped at the third strategy: TINY_MODEL gave an acceptable
\* text after two attempts that did not, and EMERGENCY_FALLBACK was not tried
C2_Witness ==
    /\ rm_pc = "returned"
    /\ Len(recovery_log) = 3
    /\ AttemptAcceptable(recovery_log[3], rm_args.D)
    /\ recovery_log[1].success

\* C3: when every engine call of a recover_transcription call raised, the
\* call makes exactly 4 attempts, the last one EMERGENCY_FALLBACK, and returns
\* success = false, strategy_used = EMERGENCY_FALLBACK and a non-empty text.
C3_AlwaysFailingEngine ==
    (rm_pc \in {"returned", "raised"} /\ EngineAlwaysFailed)
        => /\ rm_pc = "returned"
           /\ Len(recovery_log) = 4
           /\ recovery_log[4].strategy = EMERGENCY_FALLBACK
           /\ rm_result.attempts_made = 4
           /\ ~rm_result.success
           /\ rm_result.strategy_used = EMERGENCY_FALLBACK
           /\ rm_result.text # << >>

\* C3, the part about the result's success flag alone, for calls that return
C3_AlwaysFailingEngineUnsuccessful ==
    (rm_pc = "returned" /\ EngineAlwaysFailed) => ~rm_result.success

\* a strategy position k is the first whose attempt is acceptable
FirstAcceptable(k) ==
    /\ k \in 1..Len(recovery_log)
    /\ AttemptAcceptable(recovery_log[k], rm_args.D)
    /\ \A j \in 1..(k - 1) : ~AttemptAcceptable(recovery_log[j], rm_args.D)

\* C4: if the k-th attempt is the first acceptable one, the call returns
\* success = true, strategy_used = the k-th strategy, attempts_made = k and
\* the text of that attempt.
C4_FirstAcceptableWins ==
    \A k \in 1..Len(strategies) :
        (rm_pc \in {"returned", "raised"} /\ FirstAcceptable(k))
            => /\ rm_pc = "returned"
               /\ rm_result.success
               /\ rm_result.strategy_used = strategies[k]
               /\ rm_result.attempts_made = k
               /\ rm_result.text = recovery_log[k].result_text

\* SMALLER_CHUNKS is the first acceptable attempt, after a first attempt that
\* succeeded with a score below the threshold
C4_Witness ==
    /\ rm_pc = "returned"
    /\ FirstAcceptable(2)
    /\ recovery_log[1].success
    /\ rm_result.strategy_used = SMALLER_CHUNKS

\* C6: an exception inside the j-th strategy is recorded as a failed attempt
\* of that strategy, and unless it was the last strategy the next one is
\* attempted: the log already holds a later attempt, or the loop is about to
\* run the next strategy.
C6_ExceptionIsFailedAttempt ==
    \A j \in 1..Len(recovery_log) :
        recovery_log[j].error = "exception"
            => /\ ~recovery_log[j].success
               /\ recovery_log[j].strategy = strategies[j]
               /\ j < Len(strategies)
                     => (j < Len(recovery_log) \/ rm_pc = "strategy")

\* the first three strategies all raised and EMERGENCY_FALLBACK still ran
C6_Witness ==
    /\ Len(recovery_log) = 4
    /\ \A j \in 1..3 : recovery_log[j].error = "exception"

\* C7: a call to recover_transcription never raises, and the RecoveryResult
\* it returns has a non-empty text.
C7_AlwaysReturnsText ==
    /\ rm_pc # "raised"
    /\ rm_pc = "returned" => rm_result.text # << >>

(***************************************************************************)
(* Properties of a run (Spec)                                              *)
(***************************************************************************)
\* run() has returned
RunEnded == th_pc \in {"done", "failed", "batch_failed"}

\* transcription_finished was emitted with a report as its payload
ReportEmitted ==
    \E k \in 1..Len(events) :
        events[k].sig = "transcription_finished" /\ events[k].ok

\* the units the run has produced a result for, in list order
ResultUnits ==
    IF batch_is_running THEN [k \in 1..Len(results) |-> results[k].unit]
    ELSE [k \in 1..Len(full_transcription) |-> full_transcription[k].unit]

\* C1: a run whose engine was constructed and that was not cancelled ends,
\* whichever engine calls or per-unit steps raised, with a report and with
\* exactly one result for each input unit.
C1_OneResultPerUnit ==
    (RunEnded /\ is_running /\ \E u \in 1..Len(audio_files) :
                                   trace[u].engine # "none")
        => /\ ReportEmitted
           /\ \A u \in 1..Len(audio_files) :
                 Cardinality({k \in 1..Len(ResultUnits) :
                                 ResultUnits[k] = u}) = 1

\* the score the validator gives the text of the j-th attempt of unit u
AttemptScore(u, j) ==
    Validate(trace[u].log[j].result_text, trace[u].duration)

\* C5: when a flagged transcript went through recovery and no attempt was
\* acceptable, the text kept for the unit is not the original flagged text
\* but the text of the best-scoring successful attempt.
C5_BestAttemptKept ==
    \A u \in 1..Len(audio_files) :
        (/\ trace[u].recovery \in {"success", "failure"}
         /\ \A j \in 1..Len(trace[u].log) :
               ~AttemptAcceptable(trace[u].log[j], trace[u].duration))
            => /\ trace[u].kept # trace[u].text
               /\ \E j \in 1..Len(trace[u].log) :
                     /\ trace[u].log[j].success
                     /\ trace[u].kept = trace[u].log[j].result_text
                     /\ \A k \in 1..Len(trace[u].log) :
                           trace[u].log[k].success
                               => RLe(AttemptScore(u, k), AttemptScore(u, j))

\* C8: no engine call on a further unit begins once stop() has set the
\* run's cancellation flag.
C8_NoStartAfterStop == late_starts = {}

\* C9: the transcripts of the final report are in input enumeration order.
C9_ReportInInputOrder ==
    \A j \in 1..Len(final_report), k \in 1..Len(final_report) :
        j < k => final_report[j].unit < final_report[k].unit

\* C10: every text the engine returned for a unit was examined by the loop
\* detector before being kept, and every text the detector flagged was
\* handed to the recovery manager (an empty or blank text, which the
\* detector never flags, counts as examined).
C10_EveryResultGated ==
    \A u \in 1..Len(audio_files) :
        (trace[u].engine = "returned" /\ Strip(trace[u].text) # << >>)
            => /\ trace[u].gated
               /\ trace[u].flagged => trace[u].handed

(***************************************************************************)
(* Properties of _split_audio_with_ffmpeg_silence (SpecSplit)              *)
(***************************************************************************)
\* the call got as far as computing its plan of cut points
PlanComputed == sp_pc = "cutting" \/ sp_result = "chunks"

\* C11: for a total_duration above 0 the planned chunks exactly cover
\* [0, total_duration): the plan is not empty, no cut point lies past
\* total_duration and the last cut point is total_duration.
C11_PlanCoversFile ==
    PlanComputed /\ total_duration > 0
        => /\ cut_points # << >>
           /\ \A i \in 1..Len(cut_points) : cut_points[i] <= total_duration
           /\ cut_points[Len(cut_points)] = total_duration

\* C12: the chunks cut are contiguous and do not overlap: the first starts
\* at 0, each later one starts at the previous cut point and ends at its
\* own, and the cut points increase strictly; a failed extraction does not
\* shift the chunks after it.
C12_ChunksContiguous ==
    PlanComputed
        => /\ \A i \in 1..Len(cut_points), j \in 1..Len(cut_points) :
                 i < j => cut_points[i] < cut_points[j]
           /\ \A i \in 1..Len(chunk_log) :
                 /\ chunk_log[i].start
                        = (IF i = 1 THEN 0 ELSE cut_points[i - 1])
                 /\ chunk_log[i].end = cut_points[i]
                 /\ chunk_log[i].start < chunk_log[i].end

\* a chunk was cut after one whose extraction failed
C12_Witness ==
    \E i \in 1..Len(chunk_log) : i < Len(chunk_log) /\ ~chunk_log[i].ok

\* the reference plan the specification gives: from pos, next is pos plus
\* the target; a next at or past the end appends the end and stops;
\* otherwise the cut is the first candidate past next, or next itself
RECURSIVE plan_cuts_from(_, _, _, _, _)
plan_cuts_from(pos, total, target, candidates, cuts) ==
    IF pos + target >= total THEN Append(cuts, total)
    ELSE LET later == {i \in 1..Len(candidates) :
                          candidates[i] > pos + target}
             cut == IF later = {} THEN pos + target
                    ELSE candidates[CHOOSE i \in later :
                                        \A j \in later : i <= j]
         IN  plan_cuts_from(cut, total, target, candidates,
                            Append(cuts, cut))

plan_cuts(total, target, candidates) ==
    plan_cuts_from(0, total, target, candidates, << >>)

\* C13: the cut points computed equal those of the reference plan.
C13_MatchesReferencePlan ==
    PlanComputed
        => cut_points = plan_cuts(total_duration, target_chunk_duration,
                                  silence_starts)

(***************************************************************************)
(* Properties of _process_files_in_batches (SpecDispatch)                  *)
(***************************************************************************)
MaxMemory == 33
MaxCores == 9

\* the batch size has been computed
BatchSizeKnown == dp_batch_size # -1

\* C14: the batch size the scheduler works with is at most the number of
\* files, whether it was computed from the hardware or set by hand.
C14_BatchSizeWithinFiles ==
    BatchSizeKnown => dp_batch_size <= dp_files

\* C15: for the file count of the run, a machine with more memory and the
\* same cores, or more cores and the same memory, never gets a smaller
\* automatic batch size than the one computed.
C15_BatchSizeMonotone ==
    (BatchSizeKnown /\ auto_batch_size)
        => /\ \A m \in dp_hw.memory_gb..MaxMemory :
                 dp_batch_size <= determine_optimal_batch_size(
                                      Hardware(m, dp_hw.physical_cores),
                                      dp_files)
           /\ \A c \in dp_hw.physical_cores..MaxCores :
                 dp_batch_size <= determine_optimal_batch_size(
                                      Hardware(dp_hw.memory_gb, c), dp_files)

\* the status lines that only report the progress on one file
FileProgressTexts == {"batch_file", "sequential_file"}

\* the results kept for file u
ResultsOf(u) == {k \in 1..Len(dp_results) : dp_results[k].file_path = u}

\* C16: when the batched path failed at scheduler level, a status event
\* other than the per-file progress lines tells of the fallback, and the
\* result list returned holds exactly one result for every file.
C16_FallbackExplainedAndComplete ==
    dp_fell_back
        => /\ \E k \in 1..Len(dp_status) :
                 dp_status[k].text \notin FileProgressTexts
           /\ dp_pc = "returned"
                 => \A u \in 1..dp_files : Cardinality(ResultsOf(u)) = 1

\* the files of the k-th batch formed
BatchFiles(k) == dp_batches[k].first..dp_batches[k].last

C18_CacheRoundTrip ==
    /\ stored # NoEntry
          => get_duration(cache_info, fs_stat) = stored.duration
    /\ (fc_last.op = "query" /\ fc_last.had_stored)
          => ~fc_last.probed /\ fc_last.value = stored.duration
    /\ (cache_info # NoEntry /\ fs_stat.exists
            /\ cache_info.size # fs_stat.size)
          => get_duration(cache_info, fs_stat) = NoneDuration

\* C19: get_duration returns a cached duration only if the size and the
\* mtime recorded both equal the file's.
C19_ServedOnlyIfStatsEqual ==
    get_duration(cache_info, fs_stat) # NoneDuration
        => /\ cache_info.size = fs_stat.size
           /\ cache_info.mtime = fs_stat.mtime

\* C20: right after the pruning of a run's start the cache holds no entry
\* of a missing file and none whose size or mtime differs from the file's.
C20_PrunedCacheIsFresh ==
    (fc_last.op = "prune" /\ cache_info # NoEntry)
        => /\ fs_stat.exists
           /\ cache_info.size = fs_stat.size
           /\ cache_info.mtime = fs_stat.mtime

(***************************************************************************)
(* Properties of the threads' use of the FileCache (Spec)                  *)
(***************************************************************************)
\* C21: every mutating call made on the file cache (set_duration,
\* clear_stale_entries and the save_cache they end with) was made by the
\* run thread, none by the thread that called stop().
C21_CacheSingleWriter ==
    \A c \in cache_calls : c.thread = "run"

(***************************************************************************)
(* Properties of LightweightLoopDetector.detect (SpecDetect)               *)
(***************************************************************************)
\* the words of t fold to the words of u
SameWords(t, u) == LowerText(t) = LowerText(u)

\* the text consists of a phrase of two words said n times, nothing else
IsPhraseLoop(text, n) ==
    LET ws == Split(text)
    IN  /\ Len(ws) = 2 * n
        /\ \A k \in 3..Len(ws) : SameWords(ws[k], ws[k - 2])

\* the loop types of the pattern category
PatternTypes ==
    {"pattern_phrase_loop", "pattern_o_que_e_loop", "pattern_word_loop",
     "pattern_excessive_repetition"}

\* C22: a text that is a 2-word phrase said 5 times is reported with
\* has_loop true and a loop_type of the pattern category, whatever the two
\* words are.
C22_PhraseLoopIsPattern ==
    (dt_pc = "returned" /\ IsPhraseLoop(dt_text, PhraseRepeats))
        => /\ dt_result.has_loop
           /\ dt_result.loop_type \in PatternTypes

\* no run of one or more words is said twice in a row
NoRepeatedPhrase(text) ==
    LET ws == Split(text)
    IN  \A i \in 1..Len(ws), n \in 1..Len(ws) :
           i + 2 * n - 1 <= Len(ws)
              => \E k \in 0..(n - 1) : ~SameWords(ws[i + k], ws[i + n + k])

\* C23: a text whose unique-word ratio is at least 0.3 and that holds no
\* repeated phrase is reported with has_loop false, with or without an audio
\* duration and whatever the duration is.
C23_DiverseTextUnflagged ==
    (/\ dt_pc = "returned"
     /\ RLe(MinWordDiversity, calculate_word_diversity(dt_text))
     /\ NoRepeatedPhrase(dt_text))
        => ~dt_result.has_loop

(***************************************************************************)
(* Properties of the segmentation of one file                              *)
(***************************************************************************)
InList(x, list) == \E k \in 1..Len(list) : list[k] = x

\* C24: once the splitter has returned after cutting, every chunk whose cut
\* succeeded is in the returned list, whichever splitter did the cutting.
C24_SiblingChunksReturned ==
    (sg_pc \in {"split", "prepared"} /\ sg_cuts # << >>) =>
        \A k \in 1..Len(sg_cuts) : sg_cuts[k] => InList(k, sg_returned)

\* C25: when the duration probe has failed, the prepared file's single unit
\* is the original file and the file still exists.
C25_ProbeFailureKeepsFile ==
    (sg_pc = "prepared" /\ sg_probe = "failed") =>
        /\ sg_returned = <<"original">>
        /\ sg_file.exists

\* the progress events emitted for file u
ProgressOf(u) == {k \in 1..Len(dp_status) : dp_status[k].file = u}

FullProgress == progress_percent(1, 1)

\* C26: every result in the list has its progress event, the k-th progress
\* event of a run carries k / total, the fractions emitted never decrease,
\* and a dispatch that has returned has emitted 100 percent, which is not
\* emitted before.
C26_ProgressAfterEveryUnit ==
    /\ \A k \in 1..Len(dp_results) : ProgressOf(dp_results[k].file_path) # {}
    /\ \A k \in 1..Len(dp_status) :
          /\ dp_status[k].progress = progress_percent(k, dp_files)
          /\ k > 1 => RLe(dp_status[k - 1].progress, dp_status[k].progress)
          /\ dp_status[k].progress = FullProgress
                => \A u \in 1..dp_files : dp_state[u] = "done"
    /\ dp_pc = "returned"
          => \E k \in 1..Len(dp_status) : dp_status[k].progress = FullProgress

\* C28: an automatic batch size, once computed for a run over at least one
\* file, is at least 1.
C28_BatchSizePositive ==
    (BatchSizeKnown /\ auto_batch_size /\ dp_files >= 1) => dp_batch_size >= 1

(***************************************************************************)
(* Properties of the end of a run, of cancellation and of stop() (Spec)    *)
(***************************************************************************)
\* how many times transcription_finished was emitted
FinishedCount ==
    Cardinality({k \in 1..Len(events) :
                    events[k].sig = "transcription_finished"})

\* C27: transcription_finished is never emitted twice, and a run that has
\* ended, on whichever path, has emitted it.
C27_FinishedExactlyOnce ==
    /\ FinishedCount <= 1
    /\ RunEnded => FinishedCount = 1

\* the sequential loop was left because the flag was found cleared
Cancelled == \E k \in 1..Len(events) : events[k].sig = "cancelled"

\* C29: a sequential run that was cancelled at a unit boundary and has
\* ended is done, not failed, and its report holds exactly the transcripts
\* appended before the cancellation.
C29_CancelledRunReports ==
    (Cancelled /\ RunEnded)
        => /\ th_pc = "done"
           /\ ReportEmitted
           /\ final_report = full_transcription

\* C30: the file of a unit whose engine call is under way, or is submitted
\* to the pool, has not been removed.
C30_StopSparesFilesInUse ==
    \A u \in 1..Len(audio_files) :
        (unit_state[u] \in {"running", "queued"} /\ audio_files[u].exists)
            => u \in on_disk

(***************************************************************************)
(* Properties of the construction of the engine (SpecEngine)               *)
(***************************************************************************)
\* the first n elements of a sequence
Prefix(seq, n) == SubSeq(seq, 1, n)

\* the configurations the run's own constructions were tried with
RunTried == [k \in 1..Len(TriesOf("run")) |-> TriesOf("run")[k].config]

\* the ladder of the run: as configured, the same model on cpu/int8 with at
\* most four threads, the base model on cpu/int8
ConfigLadder ==
    IF eg_tries = << >> THEN << >>
    ELSE LET first == eg_tries[1].config
         IN  <<first,
               EngineConfig(first.model, "cpu", "int8",
                            Min(ConservativeThreads, cpu_threads)),
               EngineConfig("base", "cpu", "int8", DefaultThreads)>>

\* C31: the run's constructions follow the ladder in order, each tried only
\* after the one before failed; a run that has failed has seen every
\* construction fail, and none that succeeded.
C31_EngineLadder ==
    /\ RunTried = Prefix(ConfigLadder, Len(RunTried))
    /\ \A k \in 1..(Len(TriesOf("run")) - 1) : ~TriesOf("run")[k].ok
    /\ eg_pc = "failed"
          => /\ \A k \in 1..Len(eg_tries) : ~eg_tries[k].ok
             /\ Len(RunTried) = Len(ConfigLadder)

(***************************************************************************)
(* Further properties of the recovery manager (SpecRecovery)               *)
(***************************************************************************)
\* ffprobe runs on the file of the call in progress and fails on it
ProbeFails ==
    /\ rm_pc # "idle"
    /\ rm_args.tools
    /\ rm_args.f.exists
    /\ ~rm_args.f.readable

\* C32: in a call on a file whose duration cannot be probed, SMALLER_CHUNKS
\* never takes the branch that delegates to CONSERVATIVE_SETTINGS.
C32_UnprobedUnitIsSplit ==
    ProbeFails => engine_trace.delegated = 0

\* the three conditions of the batched path
ShouldBatch ==
    /\ eg_units >= batch_threshold
    /\ eg_pipeline
    /\ eg_hw.memory_gb >= 8

\* the run has its engine and has gone past the choice of the path
PathChosen == eg_path # "none"

\* C33: the batched path is taken only under the three conditions, and
\* when one of them fails the orchestrator is there to run, and a run that
\* has its engine takes the sequential path.
C33_BatchedOnlyIfSupported ==
    /\ eg_path = "batched" => ShouldBatch
    /\ ~ShouldBatch =>
          /\ eg_pc # "import_failed"
          /\ PathChosen => eg_path = "sequential"

(***************************************************************************)
(* Properties of the batch plan (SpecPlan)                                 *)
(***************************************************************************)
\* the tiered reference: by memory, then capped at the file count
TieredBatchSize(cores, memory_gb, file_count) ==
    LET tier == CASE memory_gb >= 32 -> Min(16, cores * 2)
                  [] memory_gb >= 16 /\ memory_gb < 32 -> Min(8, cores)
                  [] memory_gb >= 8 /\ memory_gb < 16 -> Min(4, cores \div 2)
                  [] OTHER -> 2
    IN  IF tier > file_count THEN file_count ELSE tier

\* 16 physical cores, 32 GB, 10 files
ReferenceMachine == bs_hw = Hardware(32, 16) /\ bs_files = 10

\* C34: the batch size computed is the tiered reference capped at the file
\* count; on 16 cores and 32 GB with 10 files it is 10, the batch count is
\* 1 and the one batch formed holds the 10 files.
C34_BatchSizeIsTiered ==
    /\ bs_pc \in {"slicing", "done", "raised"}
          => bs_size = TieredBatchSize(bs_hw.physical_cores,
                                       bs_hw.memory_gb, bs_files)
    /\ (ReferenceMachine /\ bs_pc \in {"slicing", "done"})
          => /\ bs_size = 10
             /\ total_batches = 1
             /\ Len(bs_batches) <= 1
    /\ (ReferenceMachine /\ bs_pc = "done")
          => bs_batches = <<[first |-> 1, last |-> 10]>>

C34_Witness ==
    /\ ReferenceMachine
    /\ bs_pc = "done"
    /\ bs_size = 10
    /\ Len(bs_batches) = 1

(***************************************************************************)
(* Properties of the order of the detector's checks                        *)
(***************************************************************************)
TooShort == dt_text = << >> \/ Len(Strip(dt_text)) < MinTextLength
PatternMatches == detect_patterns(clean_text(dt_text)).has_loop
LowDiversity == detect_low_diversity(clean_text(dt_text)).has_loop
DurationMismatch == validate_length_ratio(clean_text(dt_text), dt_duration).has_loop

\* C35: detect decides by the first check that matches, in the order too
\* short, pattern loop, low diversity, duration mismatch: a text below the
\* minimum length is unflagged as too_short even when a pattern matches it,
\* a pattern match wins over low diversity and duration mismatch, low
\* diversity wins over duration mismatch, and a text that matches none is
\* clean
C35_FirstCheckDecides ==
    dt_pc = "returned" =>
        /\ TooShort =>
              ~dt_result.has_loop /\ dt_result.loop_type = "too_short"
        /\ ~TooShort /\ PatternMatches =>
              dt_result = detect_patterns(clean_text(dt_text))
        /\ ~TooShort /\ ~PatternMatches /\ LowDiversity =>
              dt_result = detect_low_diversity(clean_text(dt_text))
        /\ ~TooShort /\ ~PatternMatches /\ ~LowDiversity /\ DurationMismatch =>
              dt_result = validate_length_ratio(clean_text(dt_text), dt_duration)
        /\ ~TooShort /\ ~PatternMatches /\ ~LowDiversity /\ ~DurationMismatch =>
              ~dt_result.has_loop /\ dt_result.loop_type = "clean"

\* a pattern, low diversity and a duration mismatch at once: the pattern wins
C35_Witness ==
    /\ dt_pc = "returned"
    /\ ~TooShort /\ PatternMatches /\ LowDiversity /\ DurationMismatch
    /\ dt_result.has_loop
    /\ dt_result.loop_type \in PatternTypes

\* a word loop in a text below the minimum length
C35_ShortLoopSeen ==
    dt_pc = "returned" /\ TooShort /\ PatternMatches
        /\ dt_result.loop_type = "too_short"
\* low diversity and a duration mismatch without a pattern
C35_DiversitySeen ==
    dt_pc = "returned" /\ ~TooShort /\ ~PatternMatches /\ LowDiversity
        /\ DurationMismatch /\ dt_result.loop_type = "low_diversity"
\* a duration mismatch alone, and a clean text
C35_MismatchSeen ==
    dt_pc = "returned" /\ ~TooShort /\ ~PatternMatches /\ ~LowDiversity
        /\ DurationMismatch /\ dt_result.has_loop
C35_CleanSeen ==
    dt_pc = "returned" /\ ~TooShort /\ dt_result.loop_type = "clean"

(***************************************************************************)
(* Properties of the repetition counts of the pattern check                *)
(***************************************************************************)
PatternFlagged == dt_result.has_loop /\ dt_result.loop_type \in PatternTypes
SaidTimes(n) == \E p \in CountPhrases : dt_text = repeat_text(p, n)

\* C36: a text of at least the minimum length in which a phrase of one to
\* three words is said n times in a row is flagged by the pattern check
\* exactly when n is 3 or more
C36_PatternAtStatedCounts ==
    dt_pc = "returned" /\ ~TooShort =>
        \A n \in 1..MaxCount : SaidTimes(n) => (PatternFlagged <=> n >= 3)

\* the same with the phrase said four times as the least flagged count
C36_FlaggedFromFourTimes ==
    dt_pc = "returned" /\ ~TooShort =>
        \A n \in 1..MaxCount : SaidTimes(n) => (PatternFlagged <=> n >= 4)
C36_ThreeTimesSeen ==
    dt_pc = "returned" /\ ~TooShort /\ SaidTimes(3) /\ ~PatternFlagged
C36_FourTimesSeen ==
    dt_pc = "returned" /\ ~TooShort /\ SaidTimes(4) /\ PatternFlagged

(***************************************************************************)
(* Properties of the EMERGENCY_FALLBACK strategy                           *)
(***************************************************************************)
EmergencyAttempts ==
    {k \in 1..Len(recovery_log) : recovery_log[k].strategy = EMERGENCY_FALLBACK}

\* C37: whenever the ladder reaches EMERGENCY_FALLBACK its attempt is
\* recorded as successful with a non-empty placeholder text, whatever the
\* file and the audio duration
C37_EmergencyAlwaysSucceeds ==
    \A k \in EmergencyAttempts :
        /\ recovery_log[k].success
        /\ recovery_log[k].result_text # << >>

\* the attempt of EMERGENCY_FALLBACK makes no engine call
C37_EmergencyCallsNoEngine ==
    [][(rm_pc = "strategy" /\ Len(recovery_log) = Len(strategies) - 1)
          => engine_trace' = engine_trace]_vars

\* with the duration probed or estimated, the attempt carries the placeholder
\* of that duration and fails only when the detector flags the placeholder
C37_PlaceholderUnlessRaised ==
    \A k \in EmergencyAttempts :
        LET duration == get_audio_duration(rm_args.f, rm_args.tools)
        IN  IF duration.raised
            THEN ~recovery_log[k].success /\ recovery_log[k].result_text = << >>
            ELSE /\ recovery_log[k].result_text = EmergencyText(duration.value)
                 /\ recovery_log[k].success
                        <=> ~Detect(EmergencyText(duration.value), rm_args.D).has_loop

C37_RaisedSeen ==
    \E k \in EmergencyAttempts : recovery_log[k].error = "exception"
C37_FlaggedSeen ==
    \E k \in EmergencyAttempts :
        recovery_log[k].error = "Loop still detected in result"
C37_SucceededSeen == \E k \in EmergencyAttempts : recovery_log[k].success

(***************************************************************************)
(* Properties of the recovery statistics                                   *)
(***************************************************************************)
\* no call to recover_transcription is in progress
BetweenCalls == rm_pc \in {"idle", "returned", "raised"}
Attempts(i) == stats.strategy_success_rate[strategies[i]].attempts
Successes(i) == stats.strategy_success_rate[strategies[i]].successes
LoopTypesCounted ==
    stats.loop_types_encountered.pattern_phrase_loop
        + stats.loop_types_encountered.low_diversity
        + stats.loop_types_encountered.other

RecoverySignalNames == {"loop_detected", "recovery_started", "recovery_completed"}
\* the recovery notifications emitted for unit u, in the order of emission
RecoverySignals(u) ==
    LET mine == SelectSeq(events,
                    LAMBDA e : e.unit = u /\ e.sig \in RecoverySignalNames)
    IN  [k \in 1..Len(mine) |-> mine[k].sig]

\* C39: a unit the quality gate flagged has loop_detected, recovery_started
\* and recovery_completed emitted for it, in this order and once each, and
\* a unit that was not flagged has none of them
C39_RecoverySignalsInOrder ==
    \A u \in 1..Len(audio_files) :
        RecoverySignals(u) =
            IF trace[u].flagged
            THEN <<"loop_detected", "recovery_started", "recovery_completed">>
            ELSE << >>

\* the same, apart from the recoveries that end in an exception: those have
\* loop_detected and recovery_started only
C39_SignalsUnlessRaised ==
    \A u \in 1..Len(audio_files) :
        RecoverySignals(u) =
            IF trace[u].flagged /\ trace[u].recovery # "raised"
            THEN <<"loop_detected", "recovery_started", "recovery_completed">>
            ELSE IF trace[u].flagged
            THEN <<"loop_detected", "recovery_started">>
            ELSE << >>

C39_CompletedSeen ==
    \E u \in 1..Len(audio_files) :
        trace[u].flagged /\ Len(RecoverySignals(u)) = 3
C39_UnflaggedSeen ==
    \E u \in 1..Len(audio_files) :
        trace[u].gated /\ ~trace[u].flagged /\ RecoverySignals(u) = << >>

(***************************************************************************)
(* Properties of the number of cut points                                  *)
(***************************************************************************)
\* ceil(a / b) for a >= 0 and b > 0
CeilDiv(a, b) == (a + b - 1) \div b
PlanMade == sp_pc = "cutting" \/ sp_result = "chunks"
\* the position the k-th cut starts from
CutFrom(k) == IF k = 1 THEN 0 ELSE cut_points[k - 1]

\* C40: the plan of cut points is produced for every total duration from 0,
\* every positive target and every list of silences, and it has at most
\* ceil(total_duration / target_chunk_duration) cut points: every cut lies
\* at least the target past the one before it, apart from the closing cut
\* at the end of the file
C40_CutsWithinCeiling ==
    PlanMade =>
        /\ Len(cut_points) <= CeilDiv(total_duration, target_chunk_duration)
        /\ \A k \in 1..Len(cut_points) :
              \/ cut_points[k] - CutFrom(k) >= target_chunk_duration
              \/ /\ k = Len(cut_points)
                 /\ cut_points[k] = total_duration
                 /\ cut_points[k] > CutFrom(k)

\* a plan of as many cuts as the ceiling allows, one of them at a silence
C40_Witness ==
    /\ PlanMade
    /\ Len(cut_points) >= 2
    /\ Len(cut_points) = CeilDiv(total_duration, target_chunk_duration)
    /\ \E k \in 1..Len(cut_points), i \in 1..Len(silence_starts) :
          /\ cut_points[k] = silence_starts[i]
          /\ cut_points[k] # CutFrom(k) + target_chunk_duration

\* a file of duration 0 with silences reported: the plan is empty
C40_EmptyFileSeen ==
    PlanMade /\ total_duration = 0 /\ cut_points = << >>

=============================================================================
